---------------------------- MODULE Spec2Model ----------------------------
(***************************************************************************)
(* A model of bscf (src/src/main.cpp): the proj.bscf parser and graph      *)
(* expander, the fingerprint cache written by bscfGenCache, the skip       *)
(* decision of bscfBuilder::buildTargetCMD and the dependency-ordered      *)
(* executor bscfBuilder::buildTarget / build, driven by the commands of    *)
(* main.                                                                   *)
(*                                                                         *)
(* A path is a sequence of components (strings); the leading component     *)
(* "/" marks an absolute path.  The disk is one function from the          *)
(* canonical absolute path of every existing file to its content.          *)
(***************************************************************************)
EXTENDS Naturals, Integers, Sequences, FiniteSets, TLC

(***************************************************************************)
(* Bounds of the model.                                                    *)
(***************************************************************************)
\* commands of the command line(s) processed in one behaviour
MaxCommands == 2
\* edits of input files made between commands in one behaviour
MaxEdits == 1
\* generated commands that exit non-zero in one behaviour
MaxFailures == 1
\* lines of a manifest drawn as input of the skip decision (SpecSkip)
MaxLines == 2
\* regenerate passes in a behaviour of SpecCache
MaxPasses == 3
\* edits in a behaviour of SpecCache
MaxCacheEdits == 2
\* dependency lines of the consuming target of a generated project (SpecGen)
MaxDeps == 2
\* command tokens of a command line of SpecCli
MaxArgs == 3
\* declared sources of the target of a project of SpecSrc
MaxSources == 3
\* lines of a generated configuration file over the IF vocabulary
MaxIfLines == 5
\* lines of a generated configuration file over the full vocabulary
MaxConfigLines == 3
\* nested calls of bscfResolveIncludes followed in one behaviour (SpecRes)
MaxStack == 4
\* lines of a configuration file over the IF-predicate vocabulary (SpecPred)
MaxPredLines == 4

(***************************************************************************)
(* Paths: std::filesystem::path as used by the program.                    *)
(***************************************************************************)
IsAbs(p) == Len(p) > 0 /\ p[1] = "/"

\* operator/ of std::filesystem::path: an absolute right operand replaces
\* the left one, a relative one is appended.
PathJoin(a, b) == IF IsAbs(b) THEN b ELSE a \o b

RECURSIVE DropDots(_)
DropDots(p) ==
    IF p = <<>> THEN <<>>
    ELSE IF Head(p) = "." THEN DropDots(Tail(p))
    ELSE <<Head(p)>> \o DropDots(Tail(p))

\* The file a path denotes for a process whose working directory is cwd.
Resolve(cwd, p) == DropDots(IF IsAbs(p) THEN p ELSE cwd \o p)

IsPrefix(a, b) == Len(a) <= Len(b) /\ SubSeq(b, 1, Len(a)) = a

\* std::filesystem::exists
Exists(d, cwd, p) == Resolve(cwd, p) \in DOMAIN d

\* std::filesystem::remove_all: every file at or below p disappears
RemoveAll(d, cwd, p) ==
    [q \in {r \in DOMAIN d : ~IsPrefix(Resolve(cwd, p), r)} |-> d[q]]

\* writing (creating or truncating) one file
WriteFile(d, cwd, p, content) == (Resolve(cwd, p) :> content) @@ d

\* std::filesystem::path::extension over the file names of the model
Extension(p) ==
    IF p = <<>> THEN ""
    ELSE CASE p[Len(p)] \in {"a.c", "b.c", "c.c", "s.c", "v.c", "i.c", "a_b.c"}
                   -> ".c"
           [] p[Len(p)] \in {"a.cpp"} -> ".cpp"
           [] p[Len(p)] \in {"a.h"} -> ".h"
           [] OTHER -> ""

(***************************************************************************)
(* Toolchain descriptors (compiler.h).                                     *)
(***************************************************************************)
defaultGNUCompiler ==
    [type |-> "GNU", cc |-> "gcc", cxx |-> "g++", link |-> "g++", ar |-> "ar"]

defaultClangCompiler ==
    [type |-> "CLANG", cc |-> "clang", cxx |-> "clang++", link |-> "clang++",
     ar |-> "ar"]

defaultMSVCCompiler ==
    [type |-> "MSVC", cc |-> "cl", cxx |-> "cl", link |-> "link", ar |-> "lib"]

(***************************************************************************)
(* The configuration language.  A line of proj.bscf, after bscfRead has    *)
(* removed comments and blank lines, is a directive name, its word         *)
(* arguments w and its path arguments ps.                                  *)
(***************************************************************************)
Line(cmd, w, ps) == [cmd |-> cmd, w |-> w, ps |-> ps]

\* lineStream >> word: the k-th word, empty when the line has no more
Word(line, k) == IF k <= Len(line.w) THEN line.w[k] ELSE ""

commandMap ==
    {"TARGET", "INCLUDE", "DEPEND", "GITINCLUDE", "PREBUILD", "POSTBUILD",
     "IF", "ENDIF", "DEFINE", "LIB", "INCDIR", "BUILTIN", "ALLOWSKIP"}

TargetTypes == {"EXEC", "SLIB", "DLIB", "INTR"}

\* struct Target, as the TARGET directive fills it
NewTarget(type, name, path, sources) ==
    [type |-> type, name |-> name, path |-> path, sources |-> sources,
     dependencies |-> <<>>, prebuildcmds |-> <<>>, postbuildcmds |-> <<>>,
     defines |-> <<>>, libs |-> <<>>, includes |-> <<>>, builtin |-> FALSE]

\* index of the first target of the graph with this name, 0 when none
RECURSIVE FindFrom(_, _, _)
FindFrom(targets, name, i) ==
    IF i > Len(targets) THEN 0
    ELSE IF targets[i].name = name THEN i
    ELSE FindFrom(targets, name, i + 1)

FindTarget(targets, name) == FindFrom(targets, name, 1)


\* a directive that declares the target it does not find
MutateFirst_Declare(targets, name, field, value) ==
    LET i == FindTarget(targets, name)
    IN  IF i = 0 THEN Append(targets, NewTarget("INTR", name, <<>>, <<>>))
        ELSE IF field = "builtin" THEN [targets EXCEPT ![i].builtin = value]
        ELSE [targets EXCEPT ![i][field] = Append(@, value)]

\* The mutating directives change the first target of the graph built so
\* far that has the name, and nothing when there is none.
MutateFirst(targets, name, field, value) ==
    LET i == FindTarget(targets, name)
    IN  IF i = 0 THEN targets
        ELSE IF field = "builtin" THEN [targets EXCEPT ![i].builtin = value]
        ELSE [targets EXCEPT ![i][field] = Append(@, value)]

\* The platform macros of the build: a Linux host defines __linux__ and
\* __unix__.
HostPlatforms == {"linux", "unix"}

KnownPlatforms == {"windows", "linux", "macos", "bsd", "unix"}

\* The IF directive: TRUE when the block that follows is to be skipped.
IfFailed(line, c) ==
    LET neg    == Word(line, 1) = "NOT"
        failed == ~neg
        ifcmd  == IF neg THEN Word(line, 2) ELSE Word(line, 1)
        value  == IF neg THEN Word(line, 3) ELSE Word(line, 2)
    IN  IF ifcmd = "PLATFORM"
        THEN IF value \in KnownPlatforms
             THEN (IF value \in HostPlatforms THEN ~failed ELSE failed)
             ELSE TRUE
        ELSE IF ifcmd = "COMPILER"
        THEN CASE value = "gnu" -> (IF c.type = "GNU" THEN ~failed ELSE failed)
               [] value = "msvc" -> (IF c.type = "MSVC" THEN ~failed ELSE failed)
               [] value = "clang" -> (IF c.type = "CLANG" THEN ~failed ELSE failed)
               [] OTHER -> TRUE
        ELSE failed

\* reads next, starting the scan at line i with nesting level `level`.
RECURSIVE SkipBlock(_, _, _)
\* a scan that an unknown directive name ends
SkipBlock_StopAtUnknown(lines, i, level) ==
    IF i > Len(lines) THEN i
    ELSE IF lines[i].cmd \notin commandMap THEN i + 1
    ELSE IF lines[i].cmd = "IF" THEN SkipBlock(lines, i + 1, level + 1)
    ELSE IF lines[i].cmd = "ENDIF"
         THEN (IF level - 1 <= 0 THEN i + 1
               ELSE SkipBlock(lines, i + 1, level - 1))
    ELSE SkipBlock(lines, i + 1, level)

SkipBlock(lines, i, level) ==
    IF i > Len(lines) THEN i
    ELSE IF lines[i].cmd \notin commandMap THEN SkipBlock(lines, i + 1, level)
    ELSE IF lines[i].cmd = "IF" THEN SkipBlock(lines, i + 1, level + 1)
    ELSE IF lines[i].cmd = "ENDIF"
         THEN (IF level - 1 <= 0 THEN i + 1
               ELSE SkipBlock(lines, i + 1, level - 1))
    ELSE SkipBlock(lines, i + 1, level)

\* bscfRead: the directive lines of path/proj.bscf.  (The program exits
\* when the file is missing; every configuration of the model exists.)
bscfRead(d, cwd, path) ==
    IF Exists(d, cwd, PathJoin(path, <<"proj.bscf">>))
    THEN d[Resolve(cwd, PathJoin(path, <<"proj.bscf">>))].lines
    ELSE <<>>

\* The literal sources of a TARGET line: each is stored joined with the
\* directory of the configuration file.
TargetSources(path, ps) == [k \in 1..Len(ps) |-> PathJoin(path, ps[k])]

SetBuiltin(ts) == [k \in 1..Len(ts) |-> [ts[k] EXCEPT !.builtin = TRUE]]

\* bscfInclude: the graph of the configuration file in directory `path`;
\* ParseLines is its loop over the lines, from line i on, with the graph
\* accumulated so far.
RECURSIVE bscfInclude(_, _, _, _)
RECURSIVE ParseLines(_, _, _, _, _, _, _)
\* an inclusion that lets the included file work on the including graph
IncludeTargets_SharedGraph(d, cwd, c, targets, pt) ==
    ParseLines(d, cwd, pt, c, bscfRead(d, cwd, pt), 1, targets)

\* INCLUDE and GITINCLUDE: the graph of the configuration in directory pt,
\* built on its own, is appended to the graph built so far
IncludeTargets(d, cwd, c, targets, pt) ==
    targets \o bscfInclude(d, cwd, pt, c)

ParseLines(d, cwd, path, c, lines, i, targets) ==
    IF i > Len(lines) THEN targets
    ELSE
    LET line == lines[i]
        next(ts) == ParseLines(d, cwd, path, c, lines, i + 1, ts)
    IN  IF line.cmd \notin commandMap THEN next(targets)
        ELSE CASE line.cmd = "TARGET" ->
                 IF Word(line, 1) \notin TargetTypes THEN next(targets)
                 ELSE next(Append(targets,
                          NewTarget(Word(line, 1), Word(line, 2), path,
                                    TargetSources(path, line.ps))))
          [] line.cmd = "INCLUDE" ->
                 next(IncludeTargets(d, cwd, c, targets,
                          PathJoin(PathJoin(path, <<"lib">>), line.ps[1])))
          [] line.cmd = "GITINCLUDE" ->
                 next(IncludeTargets(d, cwd, c, targets,
                          PathJoin(PathJoin(path, <<"lib">>), <<Word(line, 2)>>)))
          [] line.cmd = "BUILTIN" ->
                 next(targets \o
                      SetBuiltin(bscfInclude(d, cwd,
                          PathJoin(PathJoin(path, <<"lib">>), <<Word(line, 1)>>), c)))
          [] line.cmd = "DEPEND" ->
                 next(MutateFirst(targets, Word(line, 1),
                      "dependencies", Word(line, 2)))
          [] line.cmd = "PREBUILD" ->
                 next(MutateFirst(targets, Word(line, 1),
                      "prebuildcmds", Word(line, 2)))
          [] line.cmd = "POSTBUILD" ->
                 next(MutateFirst(targets, Word(line, 1),
                      "postbuildcmds", Word(line, 2)))
          [] line.cmd = "DEFINE" ->
                 next(MutateFirst(targets, Word(line, 1),
                      "defines", Word(line, 2)))
          [] line.cmd = "LIB" ->
                 next(MutateFirst(targets, Word(line, 1),
                      "libs", Word(line, 2)))
          [] line.cmd = "INCDIR" ->
                 next(MutateFirst(targets, Word(line, 1),
                      "includes", PathJoin(path, line.ps[1])))
          [] line.cmd = "ALLOWSKIP" ->
                 next(MutateFirst(targets, Word(line, 1),
                      "builtin", TRUE))
          [] line.cmd = "IF" ->
                 IF IfFailed(line, c)
                 THEN ParseLines(d, cwd, path, c, lines,
                                 SkipBlock(lines, i + 1, 0), targets)
                 ELSE next(targets)
          [] OTHER -> next(targets)

bscfInclude(d, cwd, path, c) ==
    ParseLines(d, cwd, path, c, bscfRead(d, cwd, path), 1, <<>>)

(***************************************************************************)
(* Flag resolver and command generator.  A command is a record: the        *)
(* program's command string split into its parts.  Flag values are paths.  *)
(***************************************************************************)
Cmd(kind, text, exe, ins, out, flags) ==
    [kind |-> kind, text |-> text, exe |-> exe, ins |-> ins, out |-> out,
     flags |-> flags]

ShellCmd(text) == Cmd("shell", text, "", <<>>, <<>>, <<>>)

RECURSIVE JoinWith(_, _)
JoinWith(p, sep) ==
    IF p = <<>> THEN ""
    ELSE IF Len(p) = 1 THEN p[1]
    ELSE p[1] \o sep \o JoinWith(Tail(p), sep)

\* std::filesystem::relative for a source below the base directory (a
\* source outside of it keeps its resolved components)
Relative(cwd, source, base) ==
    LET s == Resolve(cwd, source)
        b == Resolve(cwd, base)
    IN  IF IsPrefix(b, s) THEN SubSeq(s, Len(b) + 1, Len(s)) ELSE s

\* the object-file name of a source: separators replaced by "_", plus ".o"
ObjName(cwd, t, source) == JoinWith(Relative(cwd, source, t.path), "_") \o ".o"

ObjPath(cwd, t, source) == t.path \o <<"build", "obj", ObjName(cwd, t, source)>>

IsCompiled(source) == Extension(source) \in {".c", ".cc", ".cpp", ".cxx"}

\* bscfSourceCmd: the compile command of one source, without its flags
bscfSourceCmd(cwd, t, c, source) ==
    Cmd("compile", "",
        IF Extension(source) \in {".c", ".cc"} THEN c.cc ELSE c.cxx,
        <<source>>, ObjPath(cwd, t, source), <<>>)

\* bscfResolveIncludes: every target bearing a dependency's name
\* contributes, in graph order
RECURSIVE bscfResolveIncludes(_, _)
RECURSIVE IncludesOfDeps(_, _, _, _)
IncludesOfDeps(t, targets, di, k) ==
    IF di > Len(t.dependencies) THEN <<>>
    ELSE IF k > Len(targets) THEN IncludesOfDeps(t, targets, di + 1, 1)
    ELSE (IF targets[k].name = t.dependencies[di]
          THEN bscfResolveIncludes(targets[k], targets) ELSE <<>>)
         \o IncludesOfDeps(t, targets, di, k + 1)

\* a resolver that puts the target's own directories first
bscfResolveIncludes_OwnFirst(t, targets) ==
    t.includes \o IncludesOfDeps(t, targets, 1, 1)

bscfResolveIncludes(t, targets) ==
    IncludesOfDeps(t, targets, 1, 1) \o t.includes

\* bscfGetOutput (non-Windows build); the empty path for an interface
bscfGetOutput(t) ==
    CASE t.type = "EXEC" -> t.path \o <<"build", "bin", t.name>>
      [] t.type = "SLIB" -> t.path \o <<"build", "lib", "lib" \o t.name \o ".a">>
      [] t.type = "DLIB" -> t.path \o <<"build", "bin", "lib" \o t.name \o ".so">>
      [] OTHER -> <<>>

LibFlags(libs) == [k \in 1..Len(libs) |-> <<"-l", <<libs[k]>>>>]

\* an interface dependency that contributes a search path as well
DepLinkFlags_IntrPath(dep) ==
    CASE dep.type \in {"SLIB", "INTR"} ->
            << <<"-L", dep.path \o <<"build", "lib">>>>, <<"-l", <<dep.name>>>> >>
            \o LibFlags(dep.libs)
      [] dep.type = "DLIB" ->
            << <<"-L", dep.path \o <<"build", "bin">>>>, <<"-l", <<dep.name>>>> >>
            \o LibFlags(dep.libs)
      [] OTHER -> <<>>

\* the link flags one dependency edge contributes (first target of the name)
DepLinkFlags(dep) ==
    CASE dep.type = "SLIB" ->
            << <<"-L", dep.path \o <<"build", "lib">>>>, <<"-l", <<dep.name>>>> >>
            \o LibFlags(dep.libs)
      [] dep.type = "DLIB" ->
            << <<"-L", dep.path \o <<"build", "bin">>>>, <<"-l", <<dep.name>>>> >>
            \o LibFlags(dep.libs)
      [] dep.type = "INTR" -> LibFlags(dep.libs)
      [] OTHER -> <<>>

\* the artifact-copy command a dynamic-library dependency contributes
DepCopyCmds(t, dep) ==
    IF dep.type = "DLIB"
    THEN << Cmd("copy", "", "cp",
                <<dep.path \o <<"build", "bin", "lib" \o dep.name \o ".so">>>>,
                t.path \o <<"build", "bin", "lib" \o dep.name \o ".so">>, <<>>) >>
    ELSE <<>>

RECURSIVE DepsLinkFlags(_, _, _)
DepsLinkFlags(t, targets, di) ==
    IF di > Len(t.dependencies) THEN <<>>
    ELSE LET k == FindTarget(targets, t.dependencies[di])
         IN  (IF k = 0 THEN <<>> ELSE DepLinkFlags(targets[k]))
             \o DepsLinkFlags(t, targets, di + 1)

RECURSIVE DepsCopyCmds(_, _, _)
DepsCopyCmds(t, targets, di) ==
    IF di > Len(t.dependencies) THEN <<>>
    ELSE LET k == FindTarget(targets, t.dependencies[di])
         IN  (IF k = 0 THEN <<>> ELSE DepCopyCmds(t, targets[k]))
             \o DepsCopyCmds(t, targets, di + 1)

SelectSeqCompiled(sources) == SelectSeq(sources, IsCompiled)

\* a generator that emits the postbuild commands before the link step
bscfGenCmd_PostFirst(cwd, t, c, targets) ==
    LET link_flags == LibFlags(t.libs) \o DepsLinkFlags(t, targets, 1)
        incs       == bscfResolveIncludes(t, targets)
        comp_flags == [k \in 1..Len(t.defines) |-> <<"-D", <<t.defines[k]>>>>]
                      \o [k \in 1..Len(incs) |-> <<"-I", incs[k]>>]
        srcs       == SelectSeqCompiled(t.sources)
        compiles   == [k \in 1..Len(srcs) |->
                          [bscfSourceCmd(cwd, t, c, srcs[k])
                              EXCEPT !.flags = comp_flags]]
        objs       == [k \in 1..Len(srcs) |-> ObjPath(cwd, t, srcs[k])]
        final      ==
            CASE t.type \in {"EXEC", "DLIB"} ->
                    << Cmd("link", "", c.link, objs, bscfGetOutput(t), link_flags) >>
              [] t.type = "SLIB" ->
                    << Cmd("ar", "", c.ar, objs, bscfGetOutput(t), <<>>) >>
              [] OTHER -> <<>>
    IN  [k \in 1..Len(t.prebuildcmds) |-> ShellCmd(t.prebuildcmds[k])]
        \o DepsCopyCmds(t, targets, 1)
        \o (IF t.type = "INTR" THEN <<>> ELSE compiles)
        \o [k \in 1..Len(t.postbuildcmds) |-> ShellCmd(t.postbuildcmds[k])]
        \o final

\* bscfGenCmd: the command list of a target
bscfGenCmd(cwd, t, c, targets) ==
    LET link_flags == LibFlags(t.libs) \o DepsLinkFlags(t, targets, 1)
        incs       == bscfResolveIncludes(t, targets)
        comp_flags == [k \in 1..Len(t.defines) |-> <<"-D", <<t.defines[k]>>>>]
                      \o [k \in 1..Len(incs) |-> <<"-I", incs[k]>>]
        srcs       == SelectSeqCompiled(t.sources)
        pic        == IF t.type = "DLIB" THEN << <<"-fPIC", <<>>>> >> ELSE <<>>
        compiles   == [k \in 1..Len(srcs) |->
                          [bscfSourceCmd(cwd, t, c, srcs[k])
                              EXCEPT !.flags = comp_flags \o pic]]
        objs       == [k \in 1..Len(srcs) |-> ObjPath(cwd, t, srcs[k])]
        final      ==
            CASE t.type = "EXEC" ->
                    << Cmd("link", "", c.link, objs, bscfGetOutput(t), link_flags) >>
              [] t.type = "SLIB" ->
                    << Cmd("ar", "", c.ar, objs, bscfGetOutput(t), <<>>) >>
              [] t.type = "DLIB" ->
                    << Cmd("link", "", c.link, objs, bscfGetOutput(t),
                           << <<"-shared", <<>>>> >> \o link_flags) >>
              [] OTHER -> <<>>
    IN  [k \in 1..Len(t.prebuildcmds) |-> ShellCmd(t.prebuildcmds[k])]
        \o DepsCopyCmds(t, targets, 1)
        \o (IF t.type = "INTR" THEN <<>> ELSE compiles \o final)
        \o [k \in 1..Len(t.postbuildcmds) |-> ShellCmd(t.postbuildcmds[k])]

(***************************************************************************)
(* Fingerprint cache.                                                      *)
(***************************************************************************)
\* the content a read of a missing file yields: no bytes
EmptyContent == [lines |-> <<>>, rev |-> 0]

\* std::hash<std::string>, taken as collision-free over the values of the
\* model: the hash of x is x under a tag
StdHash(x) == <<"hash", x>>

\* getFileHash: the hash of what a read of p yields (a file that cannot be
\* opened reads as empty)
getFileHash(d, cwd, p) ==
    StdHash(IF Exists(d, cwd, p) THEN d[Resolve(cwd, p)] ELSE EmptyContent)

\* getFileNameHash: the hash of the path string as written
getFileNameHash(p) == StdHash(p)

CacheFile(t, suffix) == t.path \o <<"build", "cache", t.name \o suffix>>

\* the manifest bscfGenCache writes for a target
Manifest(d, cwd, t) ==
    [k \in 1..Len(t.sources) |->
        << getFileNameHash(PathJoin(t.path, t.sources[k])),
           getFileHash(d, cwd, PathJoin(t.path, t.sources[k])) >>]
    \o << << getFileNameHash(PathJoin(t.path, <<"proj.bscf">>)),
             getFileHash(d, cwd, PathJoin(t.path, <<"proj.bscf">>)) >> >>

\* a pass that overwrites the manifest and keeps no previous one
GenCacheTarget_NoPrev(d, cwd, t, c, targets) ==
    WriteFile(WriteFile(d, cwd, CacheFile(t, ".target"),
                        bscfGenCmd(cwd, t, c, targets)),
              cwd, CacheFile(t, ".sources"), Manifest(d, cwd, t))

\* a pass that keeps a previous manifest that is already there
GenCacheTarget_KeepPrev(d, cwd, t, c, targets) ==
    LET d1 == WriteFile(d, cwd, CacheFile(t, ".target"),
                        bscfGenCmd(cwd, t, c, targets))
        d2 == IF /\ Exists(d1, cwd, CacheFile(t, ".sources"))
                 /\ ~Exists(d1, cwd, CacheFile(t, ".prev.sources"))
              THEN WriteFile(d1, cwd, CacheFile(t, ".prev.sources"),
                             d1[Resolve(cwd, CacheFile(t, ".sources"))])
              ELSE d1
    IN  WriteFile(d2, cwd, CacheFile(t, ".sources"), Manifest(d2, cwd, t))

\* a pass that also produces the target's artifact
GenCacheTarget_Produce(d, cwd, t, c, targets) ==
    LET d1 == WriteFile(d, cwd, CacheFile(t, ".target"),
                        bscfGenCmd(cwd, t, c, targets))
        d2 == IF Exists(d1, cwd, CacheFile(t, ".sources"))
              THEN WriteFile(d1, cwd, CacheFile(t, ".prev.sources"),
                             d1[Resolve(cwd, CacheFile(t, ".sources"))])
              ELSE d1
        d3 == WriteFile(d2, cwd, CacheFile(t, ".sources"), Manifest(d2, cwd, t))
    IN  IF bscfGetOutput(t) = <<>> THEN d3
        ELSE WriteFile(d3, cwd, bscfGetOutput(t), EmptyContent)

\* the body of bscfGenCache's loop for one target
GenCacheTarget(d, cwd, t, c, targets) ==
    LET d1 == WriteFile(d, cwd, CacheFile(t, ".target"),
                        bscfGenCmd(cwd, t, c, targets))
        d2 == IF Exists(d1, cwd, CacheFile(t, ".sources"))
              THEN WriteFile(d1, cwd, CacheFile(t, ".prev.sources"),
                             d1[Resolve(cwd, CacheFile(t, ".sources"))])
              ELSE d1
    IN  WriteFile(d2, cwd, CacheFile(t, ".sources"), Manifest(d2, cwd, t))

RECURSIVE GenCacheFrom(_, _, _, _, _)
GenCacheFrom(d, cwd, c, targets, k) ==
    IF k > Len(targets) THEN d
    ELSE GenCacheFrom(GenCacheTarget(d, cwd, targets[k], c, targets),
                      cwd, c, targets, k + 1)

\* bscfGenCache: the disk after the pass over the graph of `dir`
bscfGenCache(d, cwd, dir, c) ==
    GenCacheFrom(d, cwd, c, bscfInclude(d, cwd, dir, c), 1)

\* a comparison that looks at the first pair of lines only
SameLines_FirstPair(cur, prev, k) ==
    k > Len(cur) \/ k > Len(prev) \/ cur[k] = prev[k]

\* The comparison loop of buildTargetCMD: lines are read pairwise until
\* either file ends or a pair differs.
RECURSIVE SameLines(_, _, _)
SameLines(cur, prev, k) ==
    IF k > Len(cur) \/ k > Len(prev) THEN TRUE
    ELSE IF cur[k] # prev[k] THEN FALSE
    ELSE SameLines(cur, prev, k + 1)

\* a decision that does not look at force
SkipDecision_IgnoreForce(force, hasCur, cur, hasPrev, prev) ==
    hasCur /\ hasPrev /\ SameLines(cur, prev, 1)

\* The skip decision of buildTargetCMD.  hasCur / hasPrev: the manifest
\* files exist; cur / prev: their lines.
SkipDecision(force, hasCur, cur, hasPrev, prev) ==
    /\ ~force
    /\ hasCur /\ hasPrev
    /\ SameLines(cur, prev, 1)

(***************************************************************************)
(* The build executor: bscfBuilder.  A builder state b holds the disk,     *)
(* the built and failed lists (target names, in insertion order) and two   *)
(* histories: log, what the builder did, and okRun, the manifest each      *)
(* target's command list last completed on.  env holds what does not       *)
(* change during the run: the graph, the builder's force flag, the         *)
(* working directory, and fails, the commands (target index, line number)  *)
(* that exit non-zero when executed.                                       *)
(***************************************************************************)
InSeq(seq, x) == \E k \in 1..Len(seq) : seq[k] = x

Event(e, t, k, ok, why) == [e |-> e, t |-> t, k |-> k, ok |-> ok, why |-> why]

Logged(b, ev) == [b EXCEPT !.log = Append(@, ev)]

OutputExists(d, cwd, t) == bscfGetOutput(t) # <<>> /\ Exists(d, cwd, bscfGetOutput(t))

\* what a generated command that exits with status 0 leaves on disk
ExecEffect(d, cwd, cmd) ==
    CASE cmd.kind \in {"compile", "link", "ar"} ->
            WriteFile(d, cwd, cmd.out, [lines |-> <<>>, rev |-> 0])
      [] cmd.kind = "copy" ->
            IF Exists(d, cwd, cmd.ins[1])
            THEN WriteFile(d, cwd, cmd.out, d[Resolve(cwd, cmd.ins[1])])
            ELSE d
      [] OTHER -> d

\* the lines of a file, none when it does not exist
ReadLines(d, cwd, q) == IF Exists(d, cwd, q) THEN d[Resolve(cwd, q)] ELSE <<>>

\* buildTargetCMD's skip decision for target t on the current disk
SkipsTarget(d, cwd, force, t) ==
    SkipDecision(force,
                 Exists(d, cwd, CacheFile(t, ".sources")),
                 ReadLines(d, cwd, CacheFile(t, ".sources")),
                 Exists(d, cwd, CacheFile(t, ".prev.sources")),
                 ReadLines(d, cwd, CacheFile(t, ".prev.sources")))

\* buildTargetCMD, the replay loop from line ci of the .target file on: a
\* command that exits non-zero ends it with false; after the last line the
\* target is added to built
RECURSIVE RunCommands(_, _, _, _, _)
\* a replay that records the target as built when a command fails, too
RunCommands_BuiltAnyway(env, b, k, cmds, ci) ==
    IF ci > Len(cmds)
    THEN [b  |-> [b EXCEPT !.built = Append(@, env.targets[k].name)],
          ok |-> TRUE, why |-> "done"]
    ELSE IF <<k, ci>> \in env.fails
    THEN [b |-> Logged([b EXCEPT !.built = Append(@, env.targets[k].name)],
                       Event("cmd", k, ci, FALSE, "")),
          ok |-> FALSE, why |-> "cmdfail"]
    ELSE RunCommands(env,
                     Logged([b EXCEPT !.disk = ExecEffect(@, env.cwd, cmds[ci])],
                            Event("cmd", k, ci, TRUE, "")),
                     k, cmds, ci + 1)

\* a replay that goes on after a command that exits non-zero
RunCommands_GoOn(env, b, k, cmds, ci) ==
    IF ci > Len(cmds)
    THEN [b  |-> [b EXCEPT !.built = Append(@, env.targets[k].name)],
          ok |-> TRUE, why |-> "done"]
    ELSE RunCommands(env,
                     Logged([b EXCEPT !.disk = ExecEffect(@, env.cwd, cmds[ci])],
                            Event("cmd", k, ci, <<k, ci>> \notin env.fails, "")),
                     k, cmds, ci + 1)

RunCommands(env, b, k, cmds, ci) ==
    IF ci > Len(cmds)
    THEN [b  |-> [b EXCEPT !.built = Append(@, env.targets[k].name),
                           !.okRun = (Resolve(env.cwd, CacheFile(env.targets[k], ".sources"))
                                        :> ReadLines(b.disk, env.cwd,
                                                     CacheFile(env.targets[k], ".sources")))
                                     @@ @],
          ok |-> TRUE, why |-> "done"]
    ELSE IF <<k, ci>> \in env.fails
    THEN [b |-> Logged(b, Event("cmd", k, ci, FALSE, "")), ok |-> FALSE, why |-> "cmdfail"]
    ELSE RunCommands(env,
                     Logged([b EXCEPT !.disk = ExecEffect(@, env.cwd, cmds[ci])],
                            Event("cmd", k, ci, TRUE, "")),
                     k, cmds, ci + 1)

\* history: the command list of t has completed on the manifest that is
\* now in its .sources file
CompletedOn(b, cwd, t) ==
    /\ Resolve(cwd, CacheFile(t, ".sources")) \in DOMAIN b.okRun
    /\ b.okRun[Resolve(cwd, CacheFile(t, ".sources"))]
          = ReadLines(b.disk, cwd, CacheFile(t, ".sources"))

\* buildTargetCMD: skip, or replay the persisted command list.  (The
\* "skip" event records whether the list has completed on this manifest,
\* the "start" event whether the two manifests pass the comparison.)
buildTargetCMD(env, b, k) ==
    IF SkipsTarget(b.disk, env.cwd, env.force, env.targets[k])
    THEN [b   |-> Logged(b, Event("skip", k, 0,
                                  CompletedOn(b, env.cwd, env.targets[k]), "")),
          ok  |-> TRUE, why |-> "skip"]
    ELSE RunCommands(env,
                     Logged(b, Event("start", k, 0,
                                     SkipsTarget(b.disk, env.cwd, FALSE, env.targets[k]),
                                     "")),
                     k,
                     ReadLines(b.disk, env.cwd, CacheFile(env.targets[k], ".target")), 1)

\* buildTarget(t, force) for the target of index k; BuildDeps is its loop
\* over the dependencies, from the di-th on
RECURSIVE buildTarget(_, _, _, _)
RECURSIVE BuildDeps(_, _, _, _)
\* a loop over the dependencies that does not look at their results
BuildDeps_IgnoreResult(env, b, k, di) ==
    IF di > Len(env.targets[k].dependencies) THEN [b |-> b, ok |-> TRUE]
    ELSE LET j == FindTarget(env.targets, env.targets[k].dependencies[di])
         IN  IF j = 0 THEN BuildDeps(env, b, k, di + 1)
             ELSE BuildDeps(env, buildTarget(env, b, j, FALSE).b, k, di + 1)

\* a loop that records the failed dependency but not the dependent
BuildDeps_DepOnly(env, b, k, di) ==
    IF di > Len(env.targets[k].dependencies) THEN [b |-> b, ok |-> TRUE]
    ELSE LET j == FindTarget(env.targets, env.targets[k].dependencies[di])
         IN  IF j = 0 THEN BuildDeps(env, b, k, di + 1)
             ELSE LET r == buildTarget(env, b, j, FALSE)
                  IN  IF ~r.ok
                      THEN [b  |-> [r.b EXCEPT !.failed = Append(@, env.targets[j].name)],
                            ok |-> FALSE]
                      ELSE BuildDeps(env, r.b, k, di + 1)

\* a loop that fails the target on a dependency name that matches no target
BuildDeps_MissingFails(env, b, k, di) ==
    IF di > Len(env.targets[k].dependencies) THEN [b |-> b, ok |-> TRUE]
    ELSE LET j == FindTarget(env.targets, env.targets[k].dependencies[di])
         IN  IF j = 0
             THEN [b  |-> [b EXCEPT !.failed = Append(@, env.targets[k].name)],
                   ok |-> FALSE]
             ELSE LET r == buildTarget(env, b, j, FALSE)
                  IN  IF ~r.ok
                      THEN [b  |-> [r.b EXCEPT !.failed =
                                       @ \o <<env.targets[j].name, env.targets[k].name>>],
                            ok |-> FALSE]
                      ELSE BuildDeps(env, r.b, k, di + 1)

BuildDeps(env, b, k, di) ==
    IF di > Len(env.targets[k].dependencies) THEN [b |-> b, ok |-> TRUE]
    ELSE LET j == FindTarget(env.targets, env.targets[k].dependencies[di])
         IN  IF j = 0 THEN BuildDeps(env, b, k, di + 1)
             ELSE LET r == buildTarget(env, b, j, FALSE)
                  IN  IF ~r.ok
                      THEN [b  |-> [r.b EXCEPT !.failed =
                                       @ \o <<env.targets[j].name, env.targets[k].name>>],
                            ok |-> FALSE]
                      ELSE BuildDeps(env, r.b, k, di + 1)

\* a buildTarget without the vendored short-circuit
buildTarget_NoShortCircuit(env, b, k, force) ==
    LET t == env.targets[k]
        Ret(b2, ok, why) == [b |-> Logged(b2, Event("ret", k, 0, ok, why)), ok |-> ok]
    IN  IF InSeq(b.built, t.name) THEN Ret(b, TRUE, "built")
        ELSE IF InSeq(b.failed, t.name) THEN Ret(b, FALSE, "failed")
        ELSE LET r == BuildDeps(env, Logged(b, Event("call", k, 0, TRUE, "")), k, 1)
             IN  IF ~r.ok THEN Ret(r.b, FALSE, "dep")
                 ELSE LET q == buildTargetCMD(env, r.b, k)
                      IN  IF ~q.ok
                          THEN Ret([q.b EXCEPT !.failed = Append(@, t.name)],
                                   FALSE, "cmdfail")
                          ELSE Ret(q.b, TRUE, q.why)

\* a buildTarget that does not consult the failed list
buildTarget_NoFailedCheck(env, b, k, force) ==
    LET t == env.targets[k]
        Ret(b2, ok, why) == [b |-> Logged(b2, Event("ret", k, 0, ok, why)), ok |-> ok]
    IN  IF ~force /\ t.builtin /\ OutputExists(b.disk, env.cwd, t)
        THEN Ret(b, TRUE, "vendored")
        ELSE IF InSeq(b.built, t.name) THEN Ret(b, TRUE, "built")
        ELSE LET r == BuildDeps(env, Logged(b, Event("call", k, 0, TRUE, "")), k, 1)
             IN  IF ~r.ok THEN Ret(r.b, FALSE, "dep")
                 ELSE LET q == buildTargetCMD(env, r.b, k)
                      IN  IF ~q.ok
                          THEN Ret([q.b EXCEPT !.failed = Append(@, t.name)],
                                   FALSE, "cmdfail")
                          ELSE Ret(q.b, TRUE, q.why)

\* a buildTarget that does not consult the built list
buildTarget_NoBuiltCheck(env, b, k, force) ==
    LET t == env.targets[k]
        Ret(b2, ok, why) == [b |-> Logged(b2, Event("ret", k, 0, ok, why)), ok |-> ok]
    IN  IF ~force /\ t.builtin /\ OutputExists(b.disk, env.cwd, t)
        THEN Ret(b, TRUE, "vendored")
        ELSE IF InSeq(b.failed, t.name) THEN Ret(b, FALSE, "failed")
        ELSE LET r == BuildDeps(env, Logged(b, Event("call", k, 0, TRUE, "")), k, 1)
             IN  IF ~r.ok THEN Ret(r.b, FALSE, "dep")
                 ELSE LET q == buildTargetCMD(env, r.b, k)
                      IN  IF ~q.ok
                          THEN Ret([q.b EXCEPT !.failed = Append(@, t.name)],
                                   FALSE, "cmdfail")
                          ELSE Ret(q.b, TRUE, q.why)

buildTarget(env, b, k, force) ==
    LET t == env.targets[k]
        Ret(b2, ok, why) == [b |-> Logged(b2, Event("ret", k, 0, ok, why)), ok |-> ok]
    IN  IF ~force /\ t.builtin /\ OutputExists(b.disk, env.cwd, t)
        THEN Ret(b, TRUE, "vendored")
        ELSE IF InSeq(b.built, t.name) THEN Ret(b, TRUE, "built")
        ELSE IF InSeq(b.failed, t.name) THEN Ret(b, FALSE, "failed")
        ELSE LET r == BuildDeps(env, Logged(b, Event("call", k, 0, TRUE, "")), k, 1)
             IN  IF ~r.ok THEN Ret(r.b, FALSE, "dep")
                 ELSE LET q == buildTargetCMD(env, r.b, k)
                      IN  IF ~q.ok
                          THEN Ret([q.b EXCEPT !.failed = Append(@, t.name)],
                                   FALSE, "cmdfail")
                          ELSE Ret(q.b, TRUE, q.why)

\* build(): every target of the graph in order, results ignored
RECURSIVE BuildFrom(_, _, _)
\* a loop that ends at the first target that fails
BuildFrom_StopAtFailure(env, b, k) ==
    IF k > Len(env.targets) THEN b
    ELSE LET r == buildTarget(env, b, k, FALSE)
         IN  IF r.ok THEN BuildFrom(env, r.b, k + 1) ELSE r.b

BuildFrom(env, b, k) ==
    IF k > Len(env.targets) THEN b
    ELSE BuildFrom(env, buildTarget(env, b, k, FALSE).b, k + 1)

\* a build() that reports success whatever failed
build_AlwaysOk(env, b) ==
    [b |-> BuildFrom(env, b, 1), ok |-> TRUE]

build(env, b) ==
    LET b2 == BuildFrom(env, b, 1) IN [b |-> b2, ok |-> b2.failed = <<>>]

\* buildTarget(name): the first target of that name, forced
buildTargetNamed(env, b, name) ==
    LET k == FindTarget(env.targets, name)
    IN  IF k = 0 THEN [b |-> b, ok |-> FALSE]
        ELSE LET b2 == buildTarget(env, b, k, TRUE).b
             IN  [b |-> b2, ok |-> ~InSeq(b2.failed, name)]

(***************************************************************************)
(* The projects of the model: the files on disk before the first command.  *)
(***************************************************************************)
ProjRoot == <<"/", "w", "proj">>

File(lines, rev) == [lines |-> lines, rev |-> rev]

\* A -> B -> C with A also listing C: a chain and a diamond
ChainConfig ==
    << Line("TARGET", <<"EXEC", "A">>, <<<<"src", "a.c">>>>),
       Line("TARGET", <<"SLIB", "B">>, <<<<"src", "b.c">>>>),
       Line("TARGET", <<"SLIB", "C">>, <<<<"src", "c.c">>>>),
       Line("DEPEND", <<"A", "B">>, <<>>),
       Line("DEPEND", <<"A", "C">>, <<>>),
       Line("DEPEND", <<"B", "C">>, <<>>) >>

\* an included sub-project (S), a vendored one (V, depending on S), a
\* target depending on both and on a name that does not resolve (A), and
\* an independent one (I)
VendorConfig ==
    << Line("INCLUDE", <<>>, <<<<"sub">>>>),
       Line("BUILTIN", <<"v">>, <<>>),
       Line("TARGET", <<"EXEC", "A">>, <<<<"src", "a.c">>>>),
       Line("DEPEND", <<"A", "S">>, <<>>),
       Line("DEPEND", <<"A", "nothere">>, <<>>),
       Line("DEPEND", <<"A", "V">>, <<>>),
       Line("DEPEND", <<"V", "S">>, <<>>),
       Line("TARGET", <<"INTR", "I">>, <<>>),
       Line("PREBUILD", <<"I", "echo hi">>, <<>>) >>

SubConfig == << Line("TARGET", <<"SLIB", "S">>, <<<<"src", "s.c">>>>) >>

VConfig ==
    << Line("TARGET", <<"SLIB", "V">>, <<<<"src", "v.c">>>>),
       Line("POSTBUILD", <<"V", "echo done">>, <<>>) >>

ChainDisk ==
    (ProjRoot \o <<"proj.bscf">> :> File(ChainConfig, 1))
    @@ (ProjRoot \o <<"src", "a.c">> :> File(<<>>, 1))
    @@ (ProjRoot \o <<"src", "b.c">> :> File(<<>>, 1))
    @@ (ProjRoot \o <<"src", "c.c">> :> File(<<>>, 1))

VendorDisk ==
    (ProjRoot \o <<"proj.bscf">> :> File(VendorConfig, 1))
    @@ (ProjRoot \o <<"src", "a.c">> :> File(<<>>, 1))
    @@ (ProjRoot \o <<"lib", "sub", "proj.bscf">> :> File(SubConfig, 1))
    @@ (ProjRoot \o <<"lib", "sub", "src", "s.c">> :> File(<<>>, 1))
    @@ (ProjRoot \o <<"lib", "v", "proj.bscf">> :> File(VConfig, 1))
    @@ (ProjRoot \o <<"lib", "v", "src", "v.c">> :> File(<<>>, 1))

Projects == {ChainDisk, VendorDisk}

\* The project directory argument and the working directory it is given
\* in: ".", another relative path, an absolute path.
DirForms ==
    { [cwd |-> ProjRoot, p |-> <<".">>],
      [cwd |-> <<"/", "w">>, p |-> <<"proj">>],
      [cwd |-> <<"/", "w">>, p |-> ProjRoot] }

\* the tokens of the command line that are taken as target names
NamedTokens == {"A", "V"}

(***************************************************************************)
(* State.                                                                  *)
(***************************************************************************)
VARIABLES
    disk,      \* the files: canonical path -> content
    cwd,       \* working directory of the process
    p,         \* main: the project directory argument
    c,         \* main: the active toolchain descriptor
    force,     \* main: the force toggle
    echo,      \* main: the echo toggle
    argv,      \* main: the command tokens of the command line (SpecCli)
    retval,    \* main: the exit status so far
    targets,   \* bscfBuilder::targets of the last builder
    built,     \* bscfBuilder::built of the last builder, when it returned
    failed,    \* bscfBuilder::failed of the last builder, when it returned
    bforce,    \* bscfBuilder::force of the last builder
    becho,     \* bscfBuilder::echo of the last builder
    log,       \* history: what the last builder did, in order
    ncmd,      \* commands processed so far
    nedit,     \* edits made so far
    nfail,     \* generated commands that exited non-zero so far
    prevGen,   \* history: the regenerate pass before the last one
    curGen,    \* history: the last regenerate pass
    okRun,     \* history: .sources file of a target -> the manifest its command list last completed on
    sk,        \* input and result of the skip decision (SpecSkip)
    res        \* the generate pass: target in work, call stack of bscfResolveIncludes (SpecRes)

vars == <<disk, cwd, p, c, force, echo, argv, retval, targets, built, failed,
          bforce, becho, log, ncmd, nedit, nfail, prevGen, curGen, okRun, sk,
          res>>

mainVars == <<cwd, p, c, echo, argv>>
builderVars == <<targets, built, failed, bforce, becho, log>>

\* the input files of the projects: everything outside the build trees
InputFiles(d) == {q \in DOMAIN d : \A k \in 1..Len(q) : q[k] # "build"}

Inputs(d) == [q \in InputFiles(d) |-> d[q]]

NoGen == [kind |-> "none", force |-> FALSE, inputs |-> <<>>, cleaned |-> FALSE]

\* the record of a regenerate pass: the command, the force toggle and the
\* input files it hashed
Gen(kind) == [kind |-> kind, force |-> force, inputs |-> Inputs(disk),
              cleaned |-> FALSE]

\* no generate pass in work
NoRes == [g |-> 0, graph |-> <<>>, stack |-> <<>>, out |-> <<>>]

NoSkip == [force |-> FALSE, hasCur |-> FALSE, cur |-> <<>>, hasPrev |-> FALSE,
           prev |-> <<>>, done |-> FALSE, skip |-> FALSE]

Init ==
    /\ disk \in Projects
    /\ \E f \in DirForms : cwd = f.cwd /\ p = f.p
    /\ c = defaultGNUCompiler
    /\ force = FALSE
    /\ echo = FALSE
    /\ argv = <<>>
    /\ retval = 0
    /\ targets = <<>>
    /\ built = <<>>
    /\ failed = <<>>
    /\ bforce = FALSE
    /\ becho = FALSE
    /\ log = <<>>
    /\ ncmd = 0
    /\ nedit = 0
    /\ nfail = 0
    /\ prevGen = NoGen
    /\ curGen = NoGen
    /\ okRun = <<>>
    /\ sk = NoSkip
    /\ res = NoRes

(***************************************************************************)
(* The commands of main.                                                   *)
(***************************************************************************)
RECURSIVE RemoveBuildDirs(_, _, _, _, _)
\* a removal that takes the whole build tree of each target
RemoveBuildDirs_WholeTree(d, w, ts, sub, k) ==
    IF k > Len(ts) THEN d
    ELSE RemoveBuildDirs(RemoveAll(d, w, ts[k].path \o <<"build">>), w, ts,
                         sub, k + 1)

\* remove_all(t.path / sub) for every target of ts from the k-th on
RemoveBuildDirs(d, w, ts, sub, k) ==
    IF k > Len(ts) THEN d
    ELSE RemoveBuildDirs(RemoveAll(d, w, ts[k].path \o sub), w, ts, sub, k + 1)

\* "clean": remove every target's build tree
CmdClean ==
    /\ ncmd < MaxCommands
    /\ disk' = RemoveBuildDirs(disk, cwd, bscfInclude(disk, cwd, p, c), <<"build">>, 1)
    /\ ncmd' = ncmd + 1
    /\ curGen' = [curGen EXCEPT !.cleaned = TRUE]
    /\ UNCHANGED <<mainVars, force, retval, builderVars, nedit, nfail, prevGen,
                   okRun, sk, res>>

\* "softclean": remove every target's object and cache directories
CmdSoftClean ==
    /\ ncmd < MaxCommands
    /\ disk' = RemoveBuildDirs(
                   RemoveBuildDirs(disk, cwd, bscfInclude(disk, cwd, p, c),
                                   <<"build", "obj">>, 1),
                   cwd, bscfInclude(disk, cwd, p, c), <<"build", "cache">>, 1)
    /\ ncmd' = ncmd + 1
    /\ curGen' = [curGen EXCEPT !.cleaned = TRUE]
    /\ UNCHANGED <<mainVars, force, retval, builderVars, nedit, nfail, prevGen,
                   okRun, sk, res>>

\* the lines of the .target files: (target index, line number)
AllCommands(d, w, ts) ==
    UNION {{k} \X (1..Len(ReadLines(d, w, CacheFile(ts[k], ".target")))) :
              k \in 1..Len(ts)}

\* the ways the commands of one builder run can exit: the sets of commands
\* that exit non-zero whenever they are executed (at most MaxFailures
\* non-zero exits in one behaviour)
FailSets(d, w, ts) ==
    {F \in SUBSET AllCommands(d, w, ts) : Cardinality(F) <= MaxFailures - nfail}

\* the commands that exited non-zero according to a log
FailedCmds(lg) == {k \in 1..Len(lg) : lg[k].e = "cmd" /\ ~lg[k].ok}

\* a new builder on the regenerated caches, with the settings main copies
\* into it
NewBuilder(d, ts, fails) ==
    [env |-> [targets |-> ts, force |-> force, cwd |-> cwd, fails |-> fails],
     b   |-> [disk |-> d, built |-> <<>>, failed |-> <<>>, log |-> <<>>,
              okRun |-> okRun]]

\* the state the builder leaves
Ran(nb, r) ==
    /\ disk' = r.b.disk
    /\ targets' = nb.env.targets
    /\ built' = r.b.built
    /\ failed' = r.b.failed
    /\ bforce' = nb.env.force
    /\ becho' = echo
    /\ log' = r.b.log
    /\ okRun' = r.b.okRun
    /\ retval' = IF ~r.ok THEN 1 ELSE retval
    /\ nfail' = nfail + Cardinality(FailedCmds(r.b.log))

\* "build": regenerate the caches, then build() on a new builder
CmdBuild ==
    /\ ncmd < MaxCommands
    /\ LET d1 == bscfGenCache(disk, cwd, p, c)
           ts == bscfInclude(disk, cwd, p, c)
       IN  \E fails \in FailSets(d1, cwd, ts) :
              LET nb == NewBuilder(d1, ts, fails)
              IN  Ran(nb, build(nb.env, nb.b))
    /\ ncmd' = ncmd + 1
    /\ prevGen' = curGen
    /\ curGen' = Gen("build")
    /\ UNCHANGED <<mainVars, force, nedit, sk, res>>

\* "buildcache": regenerate the caches only
CmdBuildCache ==
    /\ ncmd < MaxCommands
    /\ disk' = bscfGenCache(disk, cwd, p, c)
    /\ ncmd' = ncmd + 1
    /\ prevGen' = curGen
    /\ curGen' = Gen("buildcache")
    /\ UNCHANGED <<mainVars, force, retval, builderVars, nedit, nfail, okRun,
                   sk, res>>

\* "force" / "noforce"
CmdForce ==
    /\ ncmd < MaxCommands
    /\ force' = TRUE
    /\ UNCHANGED <<disk, mainVars, retval, builderVars, ncmd, nedit, nfail,
                   prevGen, curGen, okRun, sk, res>>

CmdNoForce ==
    /\ ncmd < MaxCommands
    /\ force' = FALSE
    /\ UNCHANGED <<disk, mainVars, retval, builderVars, ncmd, nedit, nfail,
                   prevGen, curGen, okRun, sk, res>>

\* any other token: regenerate the caches, then buildTarget(name) on a new
\* builder
CmdTarget ==
    /\ ncmd < MaxCommands
    /\ \E name \in NamedTokens :
         LET d1 == bscfGenCache(disk, cwd, p, c)
             ts == bscfInclude(disk, cwd, p, c)
         IN  \E fails \in FailSets(d1, cwd, ts) :
                LET nb == NewBuilder(d1, ts, fails)
                IN  /\ Ran(nb, buildTargetNamed(nb.env, nb.b, name))
                    /\ curGen' = [Gen("target") EXCEPT !.kind = name]
    /\ ncmd' = ncmd + 1
    /\ prevGen' = curGen
    /\ UNCHANGED <<mainVars, force, nedit, sk, res>>

\* Between two commands the user changes the content of one input file
\* (a source file or a proj.bscf; the directive lines stay as they are).
Edit ==
    /\ nedit < MaxEdits /\ ncmd < MaxCommands
    /\ curGen.kind # "none"
    /\ \E f \in InputFiles(disk) : disk' = [disk EXCEPT ![f].rev = @ + 1]
    /\ nedit' = nedit + 1
    /\ UNCHANGED <<mainVars, force, retval, builderVars, ncmd, nfail, prevGen,
                   curGen, okRun, sk, res>>

Next ==
    \/ CmdClean
    \/ CmdSoftClean
    \/ CmdBuild
    \/ CmdBuildCache
    \/ CmdForce
    \/ CmdNoForce
    \/ CmdTarget
    \/ Edit

Spec == Init /\ [][Next]_vars

(***************************************************************************)
(* The skip decision as a function of its inputs: a force flag and two     *)
(* manifest files, each absent or holding up to MaxLines lines.            *)
(***************************************************************************)
SkLineValues == {<<"n1", "h1">>, <<"n1", "h2">>}

SkManifests == UNION {[1..n -> SkLineValues] : n \in 0..MaxLines}

SkipInit ==
    /\ disk = ChainDisk
    /\ cwd = ProjRoot /\ p = <<".">>
    /\ c = defaultGNUCompiler
    /\ force = FALSE /\ echo = FALSE /\ argv = <<>> /\ retval = 0
    /\ targets = <<>> /\ built = <<>> /\ failed = <<>>
    /\ bforce = FALSE /\ becho = FALSE
    /\ log = <<>> /\ ncmd = 0 /\ nedit = 0 /\ nfail = 0
    /\ prevGen = NoGen /\ curGen = NoGen /\ okRun = <<>>
    /\ res = NoRes
    /\ \E f \in BOOLEAN, hc \in BOOLEAN, hp \in BOOLEAN :
       \E mc \in (IF hc THEN SkManifests ELSE {<<>>}),
          mp \in (IF hp THEN SkManifests ELSE {<<>>}) :
          sk = [force |-> f, hasCur |-> hc, cur |-> mc, hasPrev |-> hp,
                prev |-> mp, done |-> FALSE, skip |-> FALSE]

\* buildTargetCMD reaches its skip decision with these inputs
SkipApply ==
    /\ ~sk.done
    /\ sk' = [sk EXCEPT !.done = TRUE,
                        !.skip = SkipDecision(sk.force, sk.hasCur, sk.cur,
                                              sk.hasPrev, sk.prev)]
    /\ UNCHANGED <<disk, mainVars, force, retval, builderVars, ncmd, nedit,
                   nfail, prevGen, curGen, okRun, res>>

SkipNext == SkipApply

SpecSkip == SkipInit /\ [][SkipNext]_vars

(***************************************************************************)
(* What the claims speak of.  After a build or named-target command the    *)
(* state holds the builder as it returned: targets, built, failed, and     *)
(* log, the sequence of its calls, skips, starts, commands and returns.    *)
(***************************************************************************)
LogIdx == 1..Len(log)

Targets == 1..Len(targets)

\* the fingerprint decision skipped target k
Skipped(k) == \E i \in LogIdx : log[i].e = "skip" /\ log[i].t = k

\* the replay of the command list of target k was started
Starts(k) == {i \in LogIdx : log[i].e = "start" /\ log[i].t = k}

\* the commands of target k that were executed
CmdsOf(k) == {i \in LogIdx : log[i].e = "cmd" /\ log[i].t = k}

\* the targets the dependency names of target k resolve to
DirectDeps(k) ==
    {FindTarget(targets, targets[k].dependencies[i]) :
        i \in 1..Len(targets[k].dependencies)} \ {0}

RECURSIVE DepClosure(_, _)
DepClosure(S, n) ==
    IF n = 0 THEN S
    ELSE DepClosure(S \cup UNION {DirectDeps(x) : x \in S}, n - 1)

\* the direct and transitive dependencies of target k
TransDeps(k) == DepClosure(DirectDeps(k), Len(targets))

\* the files a target is made from: its declared sources and its proj.bscf
InputsOf(k) ==
    {Resolve(cwd, targets[k].sources[i]) : i \in 1..Len(targets[k].sources)}
    \cup {Resolve(cwd, PathJoin(targets[k].path, <<"proj.bscf">>))}

SourcesOf(k) ==
    {Resolve(cwd, targets[k].sources[i]) : i \in 1..Len(targets[k].sources)}

\* the last two regenerate passes were those of two `build` commands with
\* no clean or softclean in between; log is the second build's
TwoBuilds == prevGen.kind = "build" /\ curGen.kind = "build" /\ ~prevGen.cleaned

\* the content of input file f differs between these two passes
Changed(f) == prevGen.inputs[f] # curGen.inputs[f]

(***************************************************************************)
(* C1.  The skip decision skips if and only if force is not set, both      *)
(* manifest files exist, and the two manifests have the same number of     *)
(* lines and are equal line by line.                                       *)
(***************************************************************************)
C1_SkipIffSameManifests ==
    sk.done =>
        (sk.skip <=> (~sk.force /\ sk.hasCur /\ sk.hasPrev /\ sk.cur = sk.prev))

(***************************************************************************)
(* C2.  In the second of two consecutive builds with force off and no      *)
(* input file changed in between, every non-vendored target is skipped by  *)
(* the fingerprint decision, none of its commands is executed and no       *)
(* executed command writes its artifact.                                   *)
(***************************************************************************)
UnchangedRebuild ==
    /\ TwoBuilds /\ ~prevGen.force /\ ~curGen.force
    /\ prevGen.inputs = curGen.inputs

\* the command executed at log entry i: a line of the target's .target file
CmdAt(i) ==
    ReadLines(disk, cwd, CacheFile(targets[log[i].t], ".target"))[log[i].k]

\* no executed command of any target writes the artifact of target k
ArtifactUntouched(k) ==
    bscfGetOutput(targets[k]) # <<>> =>
        \A i \in LogIdx :
            log[i].e = "cmd" /\ CmdAt(i).out # <<>> =>
                Resolve(cwd, CmdAt(i).out) # Resolve(cwd, bscfGetOutput(targets[k]))

C2_UnchangedTargetsSkipped ==
    UnchangedRebuild =>
        \A k \in Targets :
            ~targets[k].builtin =>
                /\ Skipped(k) /\ Starts(k) = {} /\ CmdsOf(k) = {}
                /\ ArtifactUntouched(k)

C2_Witness ==
    /\ UnchangedRebuild
    /\ \E k \in Targets : ~targets[k].builtin /\ Skipped(k)
    /\ okRun # <<>>

(***************************************************************************)
(* C3.  If the content of a declared source file of a target, or of its    *)
(* proj.bscf, changed between two builds, the second build does not skip   *)
(* that target by the fingerprint decision.                                *)
(***************************************************************************)
C3_ChangedTargetNotSkipped ==
    TwoBuilds =>
        \A k \in Targets :
            (\E f \in InputsOf(k) : Changed(f)) => ~Skipped(k)

(***************************************************************************)
(* C4.  If a declared source file of target B changed between two builds,  *)
(* every target that depends on B, directly or transitively, is not        *)
(* skipped either.  (Stated for the runs in which B's own command list is  *)
(* replayed and completes and the dependent's list has completed on its    *)
(* current manifest, so that a violation rests on nothing but the          *)
(* dependency's change.)                                                   *)
(***************************************************************************)
C4_DependentsOfChangedNotSkipped ==
    TwoBuilds =>
        \A a \in Targets, b \in Targets :
            /\ b \in TransDeps(a)
            /\ \E f \in SourcesOf(b) : Changed(f)
            /\ Starts(b) # {} /\ InSeq(built, targets[b].name)
            /\ \A i \in LogIdx : log[i].e = "skip" /\ log[i].t = a => log[i].ok
            => ~Skipped(a)

(***************************************************************************)
(* C5.  A target is skipped by the fingerprint decision only if its        *)
(* command list has already run to successful completion on the manifest   *)
(* now current.                                                            *)
(***************************************************************************)
C5_SkipOnlyAfterCompletedRun ==
    \A i \in LogIdx : log[i].e = "skip" => log[i].ok

(***************************************************************************)
(* C6.  No command of a target is executed, and its replay is not          *)
(* started, before every resolvable dependency of the target has returned  *)
(* success; and every command of a dependency precedes every command of    *)
(* the dependent (C's list runs to completion before B's starts, B's       *)
(* before A's).                                                            *)
(***************************************************************************)
C6_DependenciesFirst ==
    \A i \in LogIdx :
        log[i].e \in {"start", "cmd"} =>
            \A j \in DirectDeps(log[i].t) :
                /\ \E r \in 1..(i - 1) :
                      log[r].e = "ret" /\ log[r].t = j /\ log[r].ok
                /\ \A i2 \in CmdsOf(j) : i2 < i

C6_Witness ==
    \E a \in Targets, b \in Targets, cc \in Targets :
        /\ b \in DirectDeps(a) /\ cc \in DirectDeps(b) /\ cc \in DirectDeps(a)
        /\ CmdsOf(a) # {} /\ CmdsOf(b) # {} /\ CmdsOf(cc) # {}

(***************************************************************************)
(* C7.  Within one builder the command list of a target is started at      *)
(* most once, also when the target is requested several times.             *)
(***************************************************************************)
C7_StartedAtMostOnce ==
    \A k \in Targets : Cardinality(Starts(k)) <= 1

\* a target requested three times (along two dependency paths and by the
\* loop of build()) and started once
C7_Witness ==
    \E k \in Targets :
        /\ Cardinality(Starts(k)) = 1
        /\ Cardinality({i \in LogIdx : log[i].e = "ret" /\ log[i].t = k}) >= 3

(***************************************************************************)
(* C8.  Original statement: if a command of target B exits non-zero        *)
(* during build(), then at the end B is in failed, every target that       *)
(* depends on B directly or transitively is in failed with none of its     *)
(* commands executed, and a dependency of B built before stays in built.   *)
(***************************************************************************)
FailedCmd(i) == log[i].e = "cmd" /\ ~log[i].ok

CompletedBefore(k, i) ==
    \E r \in 1..(i - 1) : log[r].e = "ret" /\ log[r].t = k /\ log[r].why = "done"

C8_FailurePropagatesToAllDependents ==
    curGen.kind = "build" =>
        \A i \in LogIdx :
            FailedCmd(i) =>
                /\ InSeq(failed, targets[log[i].t].name)
                /\ \A x \in Targets :
                      log[i].t \in TransDeps(x) =>
                          InSeq(failed, targets[x].name) /\ CmdsOf(x) = {}
                /\ \A d \in DirectDeps(log[i].t) :
                      CompletedBefore(d, i) =>
                          InSeq(built, targets[d].name) /\ ~InSeq(failed, targets[d].name)

(***************************************************************************)
(* C8, amended.  The failure reaches every target that depends on B        *)
(* directly or through a chain of dependents, none of them (the target     *)
(* itself included, and B when it is requested again) short-circuited as  *)
(* a vendored target whose artifact exists: each is in failed and none of  *)
(* its commands was executed.  B is in failed, and a dependency of B built *)
(* before stays in built.                                                  *)
(***************************************************************************)
ShortCircuited(x) ==
    \E r \in LogIdx : log[r].e = "ret" /\ log[r].t = x /\ log[r].why = "vendored"

RECURSIVE ReachedBy(_, _, _)
ReachedBy(bk, D, n) ==
    IF n = 0 THEN D
    ELSE ReachedBy(bk,
                   {x \in Targets :
                       /\ ~ShortCircuited(x)
                       /\ DirectDeps(x)
                             \cap (D \cup (IF ShortCircuited(bk) THEN {} ELSE {bk}))
                          # {}},
                   n - 1)

\* the dependents the failure of target bk reaches
Reached(bk) == ReachedBy(bk, {}, Len(targets))

C8_FailurePropagates ==
    curGen.kind = "build" =>
        \A i \in LogIdx :
            FailedCmd(i) =>
                /\ InSeq(failed, targets[log[i].t].name)
                /\ \A x \in Reached(log[i].t) :
                      InSeq(failed, targets[x].name) /\ CmdsOf(x) = {}
                /\ \A d \in DirectDeps(log[i].t) :
                      CompletedBefore(d, i) =>
                          InSeq(built, targets[d].name) /\ ~InSeq(failed, targets[d].name)

\* B fails after its dependency was built; a direct and a transitive
\* dependent are failed
C8_Witness ==
    /\ curGen.kind = "build"
    /\ \E i \in LogIdx :
          /\ FailedCmd(i)
          /\ \E d \in DirectDeps(log[i].t) : CompletedBefore(d, i)
          /\ \E x \in Reached(log[i].t) : InSeq(failed, targets[x].name)

(***************************************************************************)
(* C9.  The first command of a replay that exits non-zero ends it: no      *)
(* later command of that target is executed, the target is in failed and   *)
(* is not in built.                                                        *)
(***************************************************************************)
C9_FirstFailureEndsReplay ==
    \A i \in LogIdx :
        FailedCmd(i) =>
            /\ \A i2 \in CmdsOf(log[i].t) : i2 <= i
            /\ InSeq(failed, targets[log[i].t].name)
            /\ ~InSeq(built, targets[log[i].t].name)

\* the first of two commands failed
C9_Witness ==
    \E i \in LogIdx :
        /\ FailedCmd(i) /\ log[i].k = 1
        /\ targets[log[i].t].type \in {"EXEC", "SLIB"}
        /\ targets[log[i].t].sources # <<>>

(***************************************************************************)
(* C10.  With force set, no target is skipped through the fingerprint      *)
(* comparison: every target that reaches the skip decision has its         *)
(* command list replayed, whatever its two manifests are.                  *)
(***************************************************************************)
C10_ForceNeverSkips ==
    bforce => \A i \in LogIdx : log[i].e # "skip"

\* a forced build() replays a target whose two manifests are identical
C10_Witness ==
    /\ bforce /\ curGen.kind = "build"
    /\ \E i \in LogIdx : log[i].e = "start" /\ log[i].ok

(***************************************************************************)
(* C11.  The `buildcache` command executes no command of a command list:   *)
(* the only files it creates or changes are files of the build/cache       *)
(* directories (every target's .target and .sources file is there          *)
(* afterwards), no file is removed, and the builder state (built, failed,  *)
(* the executed commands) and the exit status stay as they were.           *)
(***************************************************************************)
\* file f lies in a build/cache directory
InCacheDir(f) ==
    \E k \in 1..(Len(f) - 1) : f[k] = "build" /\ f[k + 1] = "cache"

\* this step is a `buildcache` command
BuildCacheStep ==
    ncmd' = ncmd + 1 /\ curGen'.kind = "buildcache" /\ ~curGen'.cleaned

BuildStep ==
    ncmd' = ncmd + 1 /\ curGen'.kind = "build" /\ ~curGen'.cleaned

\* what the skip decision and the replay of target x did, according to a log
Did(lg, x) ==
    {lg[i] : i \in {j \in 1..Len(lg) :
                       lg[j].t = x /\ lg[j].e \in {"skip", "start", "cmd"}}}

\* buildTarget returned for the targets k, k+1, ... in this order, at
\* positions of the log after i
RECURSIVE AttemptedFrom(_, _, _, _)
AttemptedFrom(lg, n, k, i) ==
    IF k > n THEN TRUE
    ELSE LET R == {j \in (i + 1)..Len(lg) : lg[j].e = "ret" /\ lg[j].t = k}
         IN  R # {} /\ AttemptedFrom(lg, n, k + 1,
                                     CHOOSE j \in R : \A j2 \in R : j <= j2)

\* the run of build() on the same files in which every command exits 0
NoFailureRun ==
    LET nb == NewBuilder(bscfGenCache(disk, cwd, p, c),
                         bscfInclude(disk, cwd, p, c), {})
    IN  build(nb.env, nb.b).b

\* target x and everything it depends on are not in failed
Independent(x) ==
    \A y \in TransDeps(x) \cup {x} : ~InSeq(failed, targets[y].name)

C12_FailureDoesNotStopBuild ==
    [][BuildStep =>
          /\ AttemptedFrom(log', Len(targets'), 1, 0)
          /\ \A x \in 1..Len(targets') :
                Independent(x)' => Did(log', x) = Did(NoFailureRun.log, x)]_vars

\* a command of a target failed and a later, independent target was
\* replayed to completion
C12_Witness ==
    /\ curGen.kind = "build"
    /\ \E i \in LogIdx :
          /\ FailedCmd(i)
          /\ \E x \in Targets :
                /\ x > log[i].t /\ Independent(x)
                /\ \E j \in Starts(x) : j > i
                /\ InSeq(built, targets[x].name)

(***************************************************************************)
(* C13.  build() reports success exactly when failed is empty after every  *)
(* target has been attempted, and the exit status is non-zero exactly      *)
(* when a build or named-target command has reported failure: a build      *)
(* step makes it 1 iff failed is not empty, a named-target step iff the    *)
(* name is not in the graph or the target is in failed, no other step      *)
(* changes it, and once 1 it stays 1.                                      *)
(***************************************************************************)
\* this step is a named-target command
TargetStep ==
    ncmd' = ncmd + 1 /\ curGen'.kind \in NamedTokens /\ ~curGen'.cleaned

IfVocab ==
    { Line("IF", <<"PLATFORM", "windows">>, <<>>),
      Line("IF", <<"PLATFORM", "linux">>, <<>>),
      Line("ENDIF", <<>>, <<>>),
      Line("TARGET", <<"EXEC", "X">>, <<<<"src", "a.c">>>>),
      Line("DEFINE", <<"X", "M">>, <<>>),
      Line("BUILTIN", <<"v">>, <<>>) }

FullVocab ==
    { Line("TARGET", <<"EXEC", "X">>, <<<<"src", "a.c">>>>),
      Line("TARGET", <<"SLIB", "Y">>, <<<<"src", "b.c">>>>),
      Line("DEPEND", <<"X", "Y">>, <<>>),
      Line("DEFINE", <<"X", "M">>, <<>>),
      Line("LIB", <<"X", "m">>, <<>>),
      Line("INCDIR", <<"X">>, <<<<"inc">>>>),
      Line("PREBUILD", <<"X", "echo hi">>, <<>>),
      Line("POSTBUILD", <<"X", "echo bye">>, <<>>),
      Line("ALLOWSKIP", <<"X">>, <<>>),
      Line("BOGUS", <<"X">>, <<>>),
      Line("INCLUDE", <<>>, <<<<"sub">>>>),
      Line("BUILTIN", <<"v">>, <<>>),
      Line("GITINCLUDE", <<"url", "g">>, <<>>),
      Line("IF", <<"NOT", "PLATFORM", "linux">>, <<>>),
      Line("ENDIF", <<>>, <<>>) }

ConfigFiles ==
    UNION {[1..n -> IfVocab] : n \in 0..MaxIfLines}
    \cup UNION {[1..n -> FullVocab] : n \in 0..MaxConfigLines}

GConfig == << Line("TARGET", <<"SLIB", "G">>, <<<<"src", "c.c">>>>) >>

\* the project directory with root configuration file cfg
ParseDisk(cfg) ==
    (ProjRoot \o <<"proj.bscf">> :> File(cfg, 1))
    @@ (ProjRoot \o <<"lib", "sub", "proj.bscf">> :> File(SubConfig, 1))
    @@ (ProjRoot \o <<"lib", "v", "proj.bscf">> :> File(VConfig, 1))
    @@ (ProjRoot \o <<"lib", "g", "proj.bscf">> :> File(GConfig, 1))

ParseInit ==
    /\ \E cfg \in ConfigFiles : disk = ParseDisk(cfg)
    /\ cwd = ProjRoot /\ p = <<".">>
    /\ c = defaultGNUCompiler
    /\ force = FALSE /\ echo = FALSE /\ argv = <<>> /\ retval = 0
    /\ targets = <<>> /\ built = <<>> /\ failed = <<>>
    /\ bforce = FALSE /\ becho = FALSE
    /\ log = <<>> /\ ncmd = 0 /\ nedit = 0 /\ nfail = 0
    /\ prevGen = NoGen /\ curGen = NoGen /\ okRun = <<>>
    /\ sk = NoSkip
    /\ res = NoRes

\* main expands the configuration: targets = bscfInclude(p, c)
ParseApply ==
    /\ ncmd = 0
    /\ targets' = bscfInclude(disk, cwd, p, c)
    /\ ncmd' = 1
    /\ UNCHANGED <<disk, mainVars, force, retval, built, failed, bforce, becho, log,
                   nedit, nfail, prevGen, curGen, okRun, sk, res>>

ParseNext == ParseApply

SpecParse == ParseInit /\ [][ParseNext]_vars

\* the lines of the root configuration file
RootLines == bscfRead(disk, cwd, p)

\* the graph of the project when the root file holds `lines`
GraphOf(lines) == bscfInclude(ParseDisk(lines), cwd, p, c)

\* lines without the lines i..j
Without(lines, i, j) ==
    SubSeq(lines, 1, i - 1) \o SubSeq(lines, j + 1, Len(lines))

(***************************************************************************)
(* C14.  When the condition of an IF is false, nothing between the IF and  *)
(* its matching ENDIF (the one at the same nesting depth) takes effect,    *)
(* nested IF/ENDIF pairs included, and processing resumes after the        *)
(* matching ENDIF: the graph is that of the file without the block.        *)
(***************************************************************************)
\* the index of the ENDIF that closes an IF, scanning from line i at
\* nesting depth `depth`; past the end when there is none
RECURSIVE MatchingEndif(_, _, _)
MatchingEndif(lines, i, depth) ==
    IF i > Len(lines) THEN i
    ELSE IF lines[i].cmd = "IF" THEN MatchingEndif(lines, i + 1, depth + 1)
    ELSE IF lines[i].cmd = "ENDIF"
         THEN (IF depth = 1 THEN i ELSE MatchingEndif(lines, i + 1, depth - 1))
    ELSE MatchingEndif(lines, i + 1, depth)

\* the IF lines whose condition is false
FalseIfs(lines) ==
    {i \in 1..Len(lines) : lines[i].cmd = "IF" /\ IfFailed(lines[i], c)}

\* (Stated for the first false IF of the file, which no earlier block can
\* hide, when its matching ENDIF is in the file.)
C14_FalseIfBlockHasNoEffect ==
    ncmd = 1 /\ FalseIfs(RootLines) # {} =>
        LET i == CHOOSE i \in FalseIfs(RootLines) :
                     \A j \in FalseIfs(RootLines) : i <= j
            e == MatchingEndif(RootLines, i + 1, 1)
        IN  e <= Len(RootLines) => targets = GraphOf(Without(RootLines, i, e))

(***************************************************************************)
(* C15.  A mutating directive (DEPEND, DEFINE, LIB, INCDIR, PREBUILD,      *)
(* POSTBUILD, ALLOWSKIP) that names a target not yet in the graph, the     *)
(* TARGET line declaring it coming later in the file, changes nothing and  *)
(* is no error: the graph is that of the file without the directive.       *)
(***************************************************************************)
Mutators ==
    {"DEPEND", "DEFINE", "LIB", "INCDIR", "PREBUILD", "POSTBUILD", "ALLOWSKIP"}

\* line i is a mutating directive whose target is not in the graph built
\* from the lines before it and is declared by a later TARGET line
EarlyMutators(lines) ==
    {i \in 1..Len(lines) :
        /\ lines[i].cmd \in Mutators
        /\ FindTarget(GraphOf(SubSeq(lines, 1, i - 1)), Word(lines[i], 1)) = 0
        /\ \E j \in (i + 1)..Len(lines) :
              lines[j].cmd = "TARGET" /\ Word(lines[j], 2) = Word(lines[i], 1)}

C15_EarlyMutatorHasNoEffect ==
    ncmd = 1 =>
        \A i \in EarlyMutators(RootLines) :
            targets = GraphOf(Without(RootLines, i, i))

\* the directive came first, the target is in the graph as declared
C15_Witness ==
    /\ ncmd = 1
    /\ \E i \in EarlyMutators(RootLines) :
          /\ \A j \in 1..(i - 1) : RootLines[j].cmd \notin {"IF", "ENDIF"}
          /\ \E k \in Targets :
                /\ targets[k].name = Word(RootLines[i], 1)
                /\ targets[k] = NewTarget(targets[k].type, targets[k].name,
                                          targets[k].path, targets[k].sources)

(***************************************************************************)
(* C16.  A line whose directive name is not in the directive set is        *)
(* skipped without changing the graph, and the lines after it are parsed   *)
(* and take effect as if it were absent: the graph is that of the file     *)
(* without the line.                                                       *)
(***************************************************************************)
UnknownLines(lines) == {i \in 1..Len(lines) : lines[i].cmd \notin commandMap}

C16_UnknownDirectiveSkipped ==
    ncmd = 1 =>
        \A i \in UnknownLines(RootLines) :
            targets = GraphOf(Without(RootLines, i, i))

\* an unknown line followed by a line that took effect
C16_Witness ==
    /\ ncmd = 1
    /\ \E i \in UnknownLines(RootLines) :
          /\ i < Len(RootLines)
          /\ Len(targets) > Len(GraphOf(SubSeq(RootLines, 1, i)))

(***************************************************************************)
(* C17.  Every target that enters the graph through GITINCLUDE or BUILTIN  *)
(* has its vendored flag set; a target declared by TARGET in the root      *)
(* file or brought in by INCLUDE is vendored only if an ALLOWSKIP          *)
(* directive names it.                                                     *)
(***************************************************************************)
\* the targets of the sub-projects g (named by GITINCLUDE lines only) and
\* v (named by BUILTIN lines only)
ExternalNames == {"G", "V"}

C17_ExternalTargetsVendored ==
    ncmd = 1 =>
        \A k \in Targets :
            /\ targets[k].name \in ExternalNames => targets[k].builtin
            /\ targets[k].name \notin ExternalNames /\ targets[k].builtin =>
                  \E i \in 1..Len(RootLines) :
                      /\ RootLines[i].cmd = "ALLOWSKIP"
                      /\ Word(RootLines[i], 1) = targets[k].name

(***************************************************************************)
(* C18.  A vendored target that is requested by build() or as a            *)
(* dependency (not as the forced named target) and whose artifact exists   *)
(* is treated as built: buildTarget returns success at once, none of its   *)
(* commands is executed, its manifests are not compared and its            *)
(* dependency loop is not entered.  When the artifact does not exist the   *)
(* target takes the ordinary path: its first request enters the            *)
(* dependency loop and ends through a failed dependency, the skip          *)
(* decision or the replay.                                                 *)
(***************************************************************************)
\* target x is the one a named-target step forces
Forced(x) == TargetStep /\ FindTarget(targets', curGen'.kind) = x

\* the positions of a log that are about target x
EventsOf(lg, x) == {i \in 1..Len(lg) : lg[i].t = x}

C18_VendoredShortCircuit ==
    [][BuildStep \/ TargetStep =>
          \A x \in 1..Len(targets') :
              targets'[x].builtin /\ ~Forced(x) =>
                  LET E == EventsOf(log', x)
                  IN  IF OutputExists(disk, cwd, targets'[x])
                      THEN \A i \in E :
                              /\ log'[i].e = "ret" /\ log'[i].why = "vendored"
                              /\ log'[i].ok
                      ELSE E # {} =>
                              /\ log'[CHOOSE i \in E : \A j \in E : i <= j].e = "call"
                              /\ \E i \in E :
                                    /\ log'[i].e = "ret"
                                    /\ log'[i].why \in {"dep", "cmdfail", "skip", "done"}]_vars

\* a vendored target with a dependency was requested, by build() and as a
\* dependency, and short-circuited each time; its dependency loop was not
\* entered and nothing of it was executed
C18_Witness ==
    /\ curGen.kind = "build"
    /\ \E x \in Targets :
          /\ targets[x].builtin /\ DirectDeps(x) # {}
          /\ \E a \in Targets : x \in DirectDeps(a) /\ Starts(a) # {}
          /\ Cardinality(EventsOf(log, x)) >= 2
          /\ \A i \in EventsOf(log, x) : log[i].e = "ret" /\ log[i].why = "vendored"

(***************************************************************************)
(* C19.  A named-target build forces the cache check off for the           *)
(* requested target itself: unless a dependency of it failed, its command  *)
(* list is replayed, also when its two manifests are identical and when    *)
(* it is vendored with an existing artifact.  Its dependencies are still   *)
(* memoized (started at most once) and still subject to the fingerprint    *)
(* skip (with force off, replayed only when the manifests differ).         *)
(***************************************************************************)
C19_NamedTargetIsReplayed ==
    curGen.kind \in NamedTokens /\ FindTarget(targets, curGen.kind) # 0 =>
        LET x == FindTarget(targets, curGen.kind)
        IN  /\ (\A i \in EventsOf(log, x) : log[i].why # "dep") =>
                  Starts(x) # {} /\ ~Skipped(x)
            /\ \A d \in Targets \ {x} :
                  /\ Cardinality(Starts(d)) <= 1
                  /\ ~bforce => \A i \in Starts(d) : ~log[i].ok

(***************************************************************************)
(* The fingerprint cache over several regenerate passes: bscfGenCache run  *)
(* up to MaxPasses times on a project, the content of an input file        *)
(* changed up to MaxCacheEdits times in between.                           *)
(***************************************************************************)
\* a command that regenerates the caches (buildcache)
CachePass ==
    /\ ncmd < MaxPasses
    /\ disk' = bscfGenCache(disk, cwd, p, c)
    /\ targets' = bscfInclude(disk, cwd, p, c)
    /\ ncmd' = ncmd + 1
    /\ prevGen' = curGen
    /\ curGen' = Gen("buildcache")
    /\ UNCHANGED <<mainVars, force, retval, built, failed, bforce, becho, log, nedit,
                   nfail, okRun, sk, res>>

CacheEdit ==
    /\ nedit < MaxCacheEdits /\ ncmd < MaxPasses
    /\ \E f \in InputFiles(disk) : disk' = [disk EXCEPT ![f].rev = @ + 1]
    /\ nedit' = nedit + 1
    /\ UNCHANGED <<mainVars, force, retval, builderVars, ncmd, nfail, prevGen,
                   curGen, okRun, sk, res>>

CacheNext == CachePass \/ CacheEdit

SpecCache == Init /\ [][CacheNext]_vars

(***************************************************************************)
(* C20.  After a regenerate pass, for every target whose current manifest  *)
(* existed before the pass, the previous manifest is the current manifest  *)
(* as it was before the pass, whatever the previous manifest was; and the  *)
(* new current manifest has one line per declared source, in source        *)
(* order, followed by one line for proj.bscf, each the hash of the path    *)
(* and the hash of the content.                                            *)
(***************************************************************************)
\* this step runs bscfGenCache
GenStep == ncmd' = ncmd + 1 /\ curGen'.kind # "none" /\ ~curGen'.cleaned

C20_ManifestRotation ==
    [][GenStep =>
          LET ts == bscfInclude(disk, cwd, p, c)
          IN  \A k \in 1..Len(ts) :
                 LET cur  == CacheFile(ts[k], ".sources")
                     prev == CacheFile(ts[k], ".prev.sources")
                     new  == ReadLines(disk', cwd, cur)
                 IN  /\ Exists(disk, cwd, cur) =>
                           /\ Exists(disk', cwd, prev)
                           /\ ReadLines(disk', cwd, prev) = ReadLines(disk, cwd, cur)
                     /\ Exists(disk', cwd, cur)
                     /\ Len(new) = Len(ts[k].sources) + 1
                     /\ \A i \in 1..Len(ts[k].sources) :
                           new[i] = << getFileNameHash(PathJoin(ts[k].path, ts[k].sources[i])),
                                       getFileHash(disk, cwd, PathJoin(ts[k].path, ts[k].sources[i])) >>
                     /\ new[Len(new)] =
                           << getFileNameHash(PathJoin(ts[k].path, <<"proj.bscf">>)),
                              getFileHash(disk, cwd, PathJoin(ts[k].path, <<"proj.bscf">>)) >>]_vars

\* three passes with proj.bscf changed before the second and before the
\* third: the previous manifest is that of the second pass, not the first
C20_Witness ==
    /\ ncmd = 3 /\ curGen.kind = "buildcache"
    /\ \E k \in Targets :
          LET pj   == PathJoin(targets[k].path, <<"proj.bscf">>)
              cur  == ReadLines(disk, cwd, CacheFile(targets[k], ".sources"))
              prev == ReadLines(disk, cwd, CacheFile(targets[k], ".prev.sources"))
          IN  /\ Exists(disk, cwd, CacheFile(targets[k], ".prev.sources"))
              /\ disk[Resolve(cwd, pj)].rev = 3
              /\ cur[Len(cur)][2] = StdHash(disk[Resolve(cwd, pj)])
              /\ prev[Len(prev)][2] = StdHash([disk[Resolve(cwd, pj)] EXCEPT !.rev = 2])

(***************************************************************************)
(* The command generator over generated projects.  The root file declares  *)
(* T, D and E, each of any kind, with include directories, libraries,      *)
(* defines and prebuild and postbuild commands; T depends on up to         *)
(* MaxDeps names among D, E and a name that does not resolve, D depends on *)
(* E or not, and a sub-project that declares a second target named D is    *)
(* included before the declarations, after them, or not at all.  The       *)
(* command is buildcache.                                                  *)
(***************************************************************************)
DepNames == {"D", "E", "nothere"}

DepLists == UNION {[1..n -> DepNames] : n \in 0..MaxDeps}

\* lib/dup/proj.bscf
DupConfig ==
    << Line("TARGET", <<"DLIB", "D">>, <<<<"src", "s.c">>>>),
       Line("INCDIR", <<"D">>, <<<<"inc">>>>),
       Line("LIB", <<"D", "ldup">>, <<>>),
       Line("DEFINE", <<"T", "FROMDUP">>, <<>>),
       Line("DEPEND", <<"T", "D">>, <<>>) >>

GenConfig(tT, tD, tE, depsT, dE, dup) ==
    (IF dup = "before" THEN << Line("INCLUDE", <<>>, <<<<"dup">>>>) >> ELSE <<>>)
    \o << Line("TARGET", <<tT, "T">>,
               << <<"src", "a.c">>, <<"src", "a.h">>, <<"src", "a.cpp">> >>),
          Line("TARGET", <<tD, "D">>, <<<<"src", "b.c">>>>),
          Line("TARGET", <<tE, "E">>, <<<<"src", "c.c">>>>) >>
    \o (IF dup = "after" THEN << Line("INCLUDE", <<>>, <<<<"dup">>>>) >> ELSE <<>>)
    \o << Line("INCDIR", <<"T">>, <<<<"inc">>>>),
          Line("INCDIR", <<"D">>, <<<<"incd">>>>),
          Line("INCDIR", <<"E">>, <<<<"ince">>>>),
          Line("LIB", <<"T", "m">>, <<>>),
          Line("LIB", <<"D", "ld">>, <<>>),
          Line("LIB", <<"E", "le">>, <<>>),
          Line("DEFINE", <<"T", "M">>, <<>>),
          Line("PREBUILD", <<"T", "pre1">>, <<>>),
          Line("PREBUILD", <<"T", "pre2">>, <<>>),
          Line("POSTBUILD", <<"T", "post1">>, <<>>),
          Line("POSTBUILD", <<"T", "post2">>, <<>>) >>
    \o [k \in 1..Len(depsT) |-> Line("DEPEND", <<"T", depsT[k]>>, <<>>)]
    \o (IF dE THEN << Line("DEPEND", <<"D", "E">>, <<>>) >> ELSE <<>>)

GenConfigs ==
    {GenConfig(tT, tD, tE, depsT, dE, dup) :
        tT \in TargetTypes, tD \in TargetTypes, tE \in TargetTypes,
        depsT \in DepLists, dE \in BOOLEAN, dup \in {"none", "before", "after"}}

GenDisk(cfg) ==
    (ProjRoot \o <<"proj.bscf">> :> File(cfg, 1))
    @@ (ProjRoot \o <<"lib", "dup", "proj.bscf">> :> File(DupConfig, 1))

GenInit ==
    /\ \E cfg \in GenConfigs : disk = GenDisk(cfg)
    /\ cwd = ProjRoot /\ p = <<".">>
    /\ c = defaultGNUCompiler
    /\ force = FALSE /\ echo = FALSE /\ argv = <<>> /\ retval = 0
    /\ targets = <<>> /\ built = <<>> /\ failed = <<>>
    /\ bforce = FALSE /\ becho = FALSE
    /\ log = <<>> /\ ncmd = 0 /\ nedit = 0 /\ nfail = 0
    /\ prevGen = NoGen /\ curGen = NoGen /\ okRun = <<>>
    /\ sk = NoSkip
    /\ res = NoRes

GenNext == CachePass

SpecGen == GenInit /\ [][GenNext]_vars

\* a regenerate pass has run: targets is the graph, the .target files hold
\* the generated command lists
Generated == curGen.kind = "buildcache"

\* no two targets of the graph have the same name
UniqueNames == \A i, j \in Targets : targets[i].name = targets[j].name => i = j

\* the generated command list of target k, as persisted
TargetFile(k) == ReadLines(disk, cwd, CacheFile(targets[k], ".target"))

\* the values of the flags of one kind of a command, in order
RECURSIVE FlagValues(_, _)
FlagValues(flags, kind) ==
    IF flags = <<>> THEN <<>>
    ELSE (IF Head(flags)[1] = kind THEN <<Head(flags)[2]>> ELSE <<>>)
         \o FlagValues(Tail(flags), kind)

(***************************************************************************)
(* C21.  The include directories resolved for a target are: for each of    *)
(* its dependencies in dependency order the directories resolved for that  *)
(* dependency (so the directories of a dependency's own dependencies come  *)
(* before the dependency's), and last the target's own declared include    *)
(* directories; the -I flags of every generated compile command are these, *)
(* and the graph is left as the parser returned it.  (Graphs with unique   *)
(* names.)                                                                 *)
(***************************************************************************)
RECURSIVE IncludeOrder(_, _)
RECURSIVE IncludeOrderDeps(_, _, _)
IncludeOrderDeps(ts, k, di) ==
    IF di > Len(ts[k].dependencies) THEN <<>>
    ELSE LET j == FindTarget(ts, ts[k].dependencies[di])
         IN  (IF j = 0 THEN <<>> ELSE IncludeOrder(ts, j))
             \o IncludeOrderDeps(ts, k, di + 1)

IncludeOrder(ts, k) == IncludeOrderDeps(ts, k, 1) \o ts[k].includes

C21_IncludeOrder ==
    (Generated /\ UniqueNames) =>
        /\ targets = bscfInclude(disk, cwd, p, c)
        /\ \A k \in Targets :
              LET R == bscfResolveIncludes(targets[k], targets)
              IN  /\ R = IncludeOrder(targets, k)
                  /\ SubSeq(R, Len(R) - Len(targets[k].includes) + 1, Len(R))
                        = targets[k].includes
                  /\ {R[i] : i \in 1..Len(R)}
                        = UNION {{targets[j].includes[i] :
                                     i \in 1..Len(targets[j].includes)} :
                                 j \in TransDeps(k) \cup {k}}
                  /\ \A i \in 1..Len(TargetFile(k)) :
                        TargetFile(k)[i].kind = "compile" =>
                           FlagValues(TargetFile(k)[i].flags, "-I") = R

\* T depends on D and on E, D on E: E's directory, D's, E's again, T's own
C21_Witness ==
    /\ Generated /\ UniqueNames
    /\ \E k \in Targets :
          /\ targets[k].name = "T"
          /\ targets[k].dependencies = <<"D", "E">>
          /\ bscfResolveIncludes(targets[k], targets)
                = << p \o <<"ince">>, p \o <<"incd">>, p \o <<"ince">>,
                     p \o <<"inc">> >>
          /\ \E i \in 1..Len(TargetFile(k)) : TargetFile(k)[i].kind = "compile"

(***************************************************************************)
(* C23.  The command list generated for an executable, a static library    *)
(* or a dynamic library holds, in this order: the prebuild commands in     *)
(* declaration order, one compile command per source with a recognised     *)
(* extension in source order, exactly one link or archive command, and the *)
(* postbuild commands in declaration order.  The list of an interface      *)
(* target holds no compile and no link or archive command.                 *)
(***************************************************************************)
\* the positions of the commands of these kinds in a command list
KindIdx(L, kinds) == {i \in 1..Len(L) : L[i].kind \in kinds}

\* the sources of a compile-command subsequence, in order
RECURSIVE CompiledInputs(_)
CompiledInputs(L) ==
    IF L = <<>> THEN <<>>
    ELSE (IF Head(L).kind = "compile" THEN <<Head(L).ins[1]>> ELSE <<>>)
         \o CompiledInputs(Tail(L))

RECURSIVE RecognisedSources(_)
RecognisedSources(srcs) ==
    IF srcs = <<>> THEN <<>>
    ELSE (IF Extension(Head(srcs)) \in {".c", ".cc", ".cpp", ".cxx"}
          THEN <<Head(srcs)>> ELSE <<>>)
         \o RecognisedSources(Tail(srcs))

C23_CommandListOrder ==
    Generated =>
        \A k \in Targets :
           \* (a later target of the same name in the same directory would
           \* overwrite the file; the projects have none)
           LET t    == targets[k]
               L    == TargetFile(k)
               npre == Len(t.prebuildcmds)
               npost == Len(t.postbuildcmds)
               comp == KindIdx(L, {"compile"})
               fin  == KindIdx(L, {"link", "ar"})
           IN  /\ Len(L) >= npre + npost
               /\ \A i \in 1..npre : L[i] = ShellCmd(t.prebuildcmds[i])
               /\ \A i \in 1..npost :
                     L[Len(L) - npost + i] = ShellCmd(t.postbuildcmds[i])
               /\ \A i \in (npre + 1)..(Len(L) - npost) : L[i].kind # "shell"
               /\ IF t.type = "INTR"
                  THEN comp = {} /\ fin = {}
                  ELSE /\ CompiledInputs(L) = RecognisedSources(t.sources)
                       /\ Cardinality(fin) = 1
                       /\ \A i \in comp, j \in fin : i < j
                       /\ \A j \in fin : npre < j /\ j <= Len(L) - npost
                       /\ \A i \in comp : npre < i

\* an executable with two prebuild commands, the copy of a dynamic library
\* it depends on, two compiled sources out of three, and two postbuild
\* commands; and an interface target with prebuild commands in the graph
C23_Witness ==
    /\ Generated
    /\ \E k \in Targets :
          /\ targets[k].type = "EXEC" /\ targets[k].name = "T"
          /\ Len(targets[k].sources) = 3
          /\ Len(TargetFile(k)) = 8
          /\ TargetFile(k)[3].kind = "copy"
          /\ TargetFile(k)[6].kind = "link"
    /\ \E k \in Targets : targets[k].type = "INTR"

(***************************************************************************)
(* C24.  The link flags of a target are its own libraries followed, for    *)
(* each dependency name in order, by what the target the name resolves to  *)
(* contributes by its kind: a static library its lib directory as search   *)
(* path, -l<name> and its libraries; a dynamic library its bin directory,  *)
(* -l<name>, its libraries, and one copy command in the command list; an   *)
(* interface target its libraries only; an executable nothing; a name      *)
(* that resolves to no target nothing.                                     *)
(***************************************************************************)
\* the dependency edges of target k whose name resolves to a target of one
\* of these kinds
EdgesTo(k, kinds) ==
    {di \in 1..Len(targets[k].dependencies) :
        LET j == FindTarget(targets, targets[k].dependencies[di])
        IN  j # 0 /\ targets[j].type \in kinds}

\* the flags dependency edge di of target k is to contribute
EdgeFlags(k, di) ==
    LET j == FindTarget(targets, targets[k].dependencies[di])
        libs == IF j = 0 THEN <<>>
                ELSE [i \in 1..Len(targets[j].libs) |-> <<"-l", <<targets[j].libs[i]>>>>]
    IN  IF di \in EdgesTo(k, {"SLIB"})
        THEN << <<"-L", targets[j].path \o <<"build", "lib">>>>,
                <<"-l", <<targets[j].name>>>> >> \o libs
        ELSE IF di \in EdgesTo(k, {"DLIB"})
        THEN << <<"-L", targets[j].path \o <<"build", "bin">>>>,
                <<"-l", <<targets[j].name>>>> >> \o libs
        ELSE IF di \in EdgesTo(k, {"INTR"}) THEN libs
        ELSE <<>>

RECURSIVE EdgesFlags(_, _)
EdgesFlags(k, di) ==
    IF di > Len(targets[k].dependencies) THEN <<>>
    ELSE EdgeFlags(k, di) \o EdgesFlags(k, di + 1)

C24_LinkFlagsByKind ==
    Generated =>
        \A k \in Targets :
           LET L == TargetFile(k)
               t == targets[k]
               own == [i \in 1..Len(t.libs) |-> <<"-l", <<t.libs[i]>>>>]
               copies == KindIdx(L, {"copy"})
           IN  /\ \A i \in KindIdx(L, {"link"}) :
                     SelectSeq(L[i].flags, LAMBDA f : f[1] # "-shared")
                        = own \o EdgesFlags(k, 1)
               /\ Cardinality(copies) = Cardinality(EdgesTo(k, {"DLIB"}))
               /\ \A i \in copies :
                     \E di \in EdgesTo(k, {"DLIB"}) :
                        LET j == FindTarget(targets, t.dependencies[di])
                        IN  /\ L[i].ins = <<bscfGetOutput(targets[j])>>
                            /\ L[i].out = t.path \o SubSeq(bscfGetOutput(targets[j]),
                                              Len(targets[j].path) + 1,
                                              Len(bscfGetOutput(targets[j])))

\* an executable that depends on a dynamic library and on an interface
\* target, in a graph where an unresolvable name is listed by no one else
C24_Witness ==
    /\ Generated /\ UniqueNames
    /\ \E k \in Targets :
          /\ targets[k].type = "EXEC" /\ targets[k].name = "T"
          /\ Len(targets[k].dependencies) = 2
          /\ EdgesTo(k, {"DLIB"}) = {1} /\ EdgesTo(k, {"INTR"}) = {2}
          /\ \E i \in KindIdx(TargetFile(k), {"link"}) :
                Len(TargetFile(k)[i].flags) = 5
          /\ Cardinality(KindIdx(TargetFile(k), {"copy"})) = 1

(***************************************************************************)
(* C29.  When several targets share a name, every consumer of a            *)
(* dependency name takes the first target of that name in graph order:     *)
(* the include directories resolved for a target are those reached         *)
(* through the first targets of its dependency names, as are its link      *)
(* flags and copy commands.                                                *)
(***************************************************************************)
C29_FirstMatchEverywhere ==
    Generated =>
        \A k \in Targets :
           /\ bscfResolveIncludes(targets[k], targets) = IncludeOrder(targets, k)
           /\ \A i \in KindIdx(TargetFile(k), {"link"}) :
                 SelectSeq(TargetFile(k)[i].flags, LAMBDA f : f[1] # "-shared")
                    = [j \in 1..Len(targets[k].libs) |-> <<"-l", <<targets[k].libs[j]>>>>]
                      \o EdgesFlags(k, 1)

(***************************************************************************)
(* C30.  A mutating directive changes at most the first target of its      *)
(* name in the graph its own file has built so far (declared earlier in    *)
(* the file or spliced in by an earlier inclusion of the file).  A         *)
(* mutating directive of an included file that names a target of the       *)
(* including file changes nothing, whether the target is declared before   *)
(* or after the inclusion line: the graph is the one of the project        *)
(* without that directive.                                                 *)
(***************************************************************************)
\* the file system with the lines of one configuration file replaced
WithLines(d, f, lines) == [d EXCEPT ![f].lines = lines]

\* the lines of an included file that name a target the file declares
OwnLines(lines) ==
    SelectSeq(lines,
              LAMBDA l : l.cmd \notin Mutators
                         \/ \E i \in 1..Len(lines) :
                               lines[i].cmd = "TARGET" /\ Word(lines[i], 2) = Word(l, 1))

C30_MutatorsAreFileLocal ==
    Generated =>
        LET root == Resolve(cwd, PathJoin(p, <<"proj.bscf">>))
            sub  == Resolve(cwd, p \o <<"lib", "dup", "proj.bscf">>)
            lines == disk[root].lines
            graph(n) == bscfInclude(WithLines(disk, root, SubSeq(lines, 1, n)),
                                    cwd, p, c)
        IN  /\ targets = bscfInclude(WithLines(disk, sub, OwnLines(disk[sub].lines)),
                                     cwd, p, c)
            /\ \A n \in 1..Len(lines) :
                  lines[n].cmd \in Mutators =>
                     LET g0 == graph(n - 1)
                         g1 == graph(n)
                     IN  /\ Len(g1) = Len(g0)
                         /\ \A j \in 1..Len(g0) :
                               g1[j] # g0[j] => j = FindTarget(g0, Word(lines[n], 1))

\* the included file's DEFINE T and DEPEND T are processed after the root
\* file has declared T, and T has the define and the dependencies of the
\* root file only
C30_Witness ==
    /\ Generated
    /\ \E n \in 1..Len(bscfRead(disk, cwd, p)) :
          /\ bscfRead(disk, cwd, p)[n].cmd = "INCLUDE"
          /\ n > 1
    /\ \E n \in 1..Len(disk[Resolve(cwd, p \o <<"lib", "dup", "proj.bscf">>)].lines) :
          disk[Resolve(cwd, p \o <<"lib", "dup", "proj.bscf">>)].lines[n]
             = Line("DEFINE", <<"T", "FROMDUP">>, <<>>)
    /\ targets[FindTarget(targets, "T")].defines = <<"M">>
    /\ targets[FindTarget(targets, "T")].dependencies = <<"E">>

(***************************************************************************)
(* C25.  After build() has returned, every target the fingerprint decision *)
(* skipped is in built, and every target of the graph that is not in       *)
(* failed is in built.                                                     *)
(***************************************************************************)
C25_SkippedTargetsAreBuilt ==
    (curGen.kind = "build" /\ ~curGen.cleaned) =>
        \A k \in Targets :
           /\ Skipped(k) => InSeq(built, targets[k].name)
           /\ ~InSeq(failed, targets[k].name) => InSeq(built, targets[k].name)

(***************************************************************************)
(* C27.  Once a target has been added to failed, every later request to    *)
(* build it in the same builder returns failure at once: no dependency     *)
(* loop, no skip decision, no command.                                     *)
(***************************************************************************)
\* buildTarget returns at position i of the log having added its target to
\* failed
FailsAt(i) == log[i].e = "ret" /\ ~log[i].ok /\ log[i].why \in {"cmdfail", "dep"}

C27_FailedStaysFailed ==
    \A i \in LogIdx, j \in LogIdx :
       (FailsAt(i) /\ i < j /\ log[j].t = log[i].t) =>
          log[j].e = "ret" /\ ~log[j].ok

\* As the code has it: the same, except that a request that is not forced,
\* for a vendored target whose artifact exists, returns success at once.
C27_FailedStaysFailedUnlessVendored ==
    \A i \in LogIdx, j \in LogIdx :
       (FailsAt(i) /\ i < j /\ log[j].t = log[i].t) =>
          /\ log[j].e = "ret"
          /\ InSeq(failed, targets[log[j].t].name)
          /\ \/ ~log[j].ok /\ log[j].why = "failed"
             \/ /\ log[j].ok /\ log[j].why = "vendored"
                /\ targets[log[j].t].builtin
                /\ (curGen.kind \in {"build"} \cup NamedTokens /\ ~curGen.cleaned)
                      => OutputExists(disk, cwd, targets[log[j].t])

\* a target whose command failed is requested again and fails at once
C27_Witness ==
    \E i \in LogIdx, j \in LogIdx :
       /\ FailsAt(i) /\ log[i].why = "cmdfail" /\ i < j
       /\ log[j].t = log[i].t /\ log[j].e = "ret" /\ log[j].why = "failed"

(***************************************************************************)
(* C28.  No target name is both in built and in failed.  (Both lists only  *)
(* grow while a builder runs, so what holds when it returns held all       *)
(* along.  The names of the graphs are unique and the graphs acyclic.)     *)
(***************************************************************************)
C28_BuiltFailedDisjoint ==
    /\ \A i \in 1..Len(built), j \in 1..Len(failed) : built[i] # failed[j]
    /\ \A k \in Targets :
          InSeq(built, targets[k].name) =>
             \A i \in LogIdx : log[i].t = k => ~FailsAt(i)
    /\ \A k \in Targets :
          InSeq(failed, targets[k].name) =>
             \A i \in LogIdx :
                (log[i].t = k /\ log[i].e = "ret") => log[i].why # "done"

\* a builder that returned with a built target and a failed one, the
\* failed one requested both before and after it failed
C28_Witness ==
    /\ built # <<>> /\ failed # <<>>
    /\ \E i \in LogIdx, j \in LogIdx :
          i < j /\ FailsAt(i) /\ log[j].t = log[i].t /\ log[j].e = "ret"

(***************************************************************************)
(* Builds of a project whose list of declared sources changes: one target  *)
(* T with up to MaxSources literal sources among two source files and the  *)
(* configuration file itself; between two builds the TARGET line is        *)
(* rewritten with one source added, removed or moved.                      *)
(***************************************************************************)
SourceNames == {<<"src", "a.c">>, <<"src", "b.c">>, <<"proj.bscf">>}

SourceLists == UNION {[1..n -> SourceNames] : n \in 0..MaxSources}

SrcConfig(ps) == << Line("TARGET", <<"EXEC", "T">>, ps) >>

SrcDisk(ps) ==
    (ProjRoot \o <<"proj.bscf">> :> File(SrcConfig(ps), 1))
    @@ (ProjRoot \o <<"src", "a.c">> :> File(<<>>, 1))
    @@ (ProjRoot \o <<"src", "b.c">> :> File(<<>>, 1))

\* the lists one added, removed or moved source away from ps
OneChange(ps) ==
    ({SubSeq(ps, 1, i) \o <<x>> \o SubSeq(ps, i + 1, Len(ps)) :
         i \in 0..Len(ps), x \in SourceNames} \cap SourceLists)
    \cup {SubSeq(ps, 1, i - 1) \o SubSeq(ps, i + 1, Len(ps)) : i \in 1..Len(ps)}
    \cup ({SubSeq(q, 1, j) \o <<ps[i]>> \o SubSeq(q, j + 1, Len(q)) :
             <<i, j, q>> \in {<<i, j, SubSeq(ps, 1, i - 1) \o SubSeq(ps, i + 1, Len(ps))>> :
                                i \in 1..Len(ps), j \in 0..(Len(ps) - 1)}}
          \ {ps})

SrcInit ==
    /\ \E ps \in SourceLists : disk = SrcDisk(ps)
    /\ \E f \in DirForms : cwd = f.cwd /\ p = f.p
    /\ c = defaultGNUCompiler
    /\ force = FALSE /\ echo = FALSE /\ argv = <<>> /\ retval = 0
    /\ targets = <<>> /\ built = <<>> /\ failed = <<>>
    /\ bforce = FALSE /\ becho = FALSE
    /\ log = <<>> /\ ncmd = 0 /\ nedit = 0 /\ nfail = 0
    /\ prevGen = NoGen /\ curGen = NoGen /\ okRun = <<>>
    /\ sk = NoSkip
    /\ res = NoRes

\* the user rewrites the TARGET line of proj.bscf
EditSources ==
    /\ nedit < MaxEdits /\ ncmd < MaxCommands
    /\ curGen.kind # "none"
    /\ LET f == ProjRoot \o <<"proj.bscf">>
       IN  \E ps \in OneChange(disk[f].lines[1].ps) :
              disk' = [disk EXCEPT ![f] = File(SrcConfig(ps), @.rev + 1)]
    /\ nedit' = nedit + 1
    /\ UNCHANGED <<mainVars, force, retval, builderVars, ncmd, nfail, prevGen,
                   curGen, okRun, sk, res>>

SrcNext == CmdBuild \/ EditSources

SpecSrc == SrcInit /\ [][SrcNext]_vars

(***************************************************************************)
(* C26.  When the list of declared sources of a target differs between     *)
(* the regenerate passes of two consecutive builds by one source added,    *)
(* removed or moved, the second build does not skip the target: it starts  *)
(* the replay of its command list and executes it up to its end or to the  *)
(* first command that fails.                                               *)
(***************************************************************************)
\* the declared sources of T at a regenerate pass
DeclaredAt(gen) == gen.inputs[ProjRoot \o <<"proj.bscf">>].lines[1].ps

Tokens ==
    {"clean", "softclean", "build", "buildcache", "gnu", "msvc", "clang",
     "echo", "noecho", "force", "noforce", "A"}

CommandLines == UNION {[1..n -> Tokens] : n \in 0..MaxArgs}

\* a toggle that stays set once it is set
Toggle_Sticky(cur, com, on, off) ==
    IF cur \/ com \in on THEN TRUE ELSE cur

\* echo / noecho and force / noforce: the value of the toggle after token com
Toggle(cur, com, on, off) ==
    IF com \in on THEN TRUE ELSE IF com \in off THEN FALSE ELSE cur

\* gnu / msvc / clang: the toolchain descriptor after token com
SetCompiler(cur, com) ==
    CASE com = "gnu" -> defaultGNUCompiler
      [] com = "msvc" -> defaultMSVCCompiler
      [] com = "clang" -> defaultClangCompiler
      [] OTHER -> cur

CliInit ==
    /\ disk = ChainDisk
    /\ cwd = ProjRoot /\ p = <<".">>
    /\ c = defaultGNUCompiler
    /\ force = FALSE /\ echo = FALSE /\ retval = 0
    /\ argv \in CommandLines
    /\ targets = <<>> /\ built = <<>> /\ failed = <<>>
    /\ bforce = FALSE /\ becho = FALSE
    /\ log = <<>> /\ ncmd = 0 /\ nedit = 0 /\ nfail = 0
    /\ prevGen = NoGen /\ curGen = NoGen /\ okRun = <<>>
    /\ sk = NoSkip
    /\ res = NoRes

\* one iteration of `for (const std::string& com : commands)`
MainStep ==
    /\ ncmd < Len(argv)
    /\ LET com == argv[ncmd + 1]
           ts  == bscfInclude(disk, cwd, p, c)
           d1  == bscfGenCache(disk, cwd, p, c)
       IN  \/ /\ com = "clean"
              /\ disk' = RemoveBuildDirs(disk, cwd, ts, <<"build">>, 1)
              /\ curGen' = [curGen EXCEPT !.cleaned = TRUE]
              /\ UNCHANGED <<c, force, echo, retval, builderVars, nfail,
                             prevGen, okRun>>
           \/ /\ com = "softclean"
              /\ disk' = RemoveBuildDirs(
                             RemoveBuildDirs(disk, cwd, ts, <<"build", "obj">>, 1),
                             cwd, ts, <<"build", "cache">>, 1)
              /\ curGen' = [curGen EXCEPT !.cleaned = TRUE]
              /\ UNCHANGED <<c, force, echo, retval, builderVars, nfail,
                             prevGen, okRun>>
           \/ /\ com = "build"
              /\ \E fails \in FailSets(d1, cwd, ts) :
                    LET nb == NewBuilder(d1, ts, fails)
                    IN  Ran(nb, build(nb.env, nb.b))
              /\ prevGen' = curGen
              /\ curGen' = Gen("build")
              /\ UNCHANGED <<c, force, echo>>
           \/ /\ com = "buildcache"
              /\ disk' = d1
              /\ prevGen' = curGen
              /\ curGen' = Gen("buildcache")
              /\ UNCHANGED <<c, force, echo, retval, builderVars, nfail, okRun>>
           \/ /\ com \in {"gnu", "msvc", "clang"}
              /\ c' = SetCompiler(c, com)
              /\ UNCHANGED <<disk, force, echo, retval, builderVars, nfail,
                             prevGen, curGen, okRun>>
           \/ /\ com \in {"echo", "noecho"}
              /\ echo' = Toggle(echo, com, {"echo"}, {"noecho"})
              /\ UNCHANGED <<disk, c, force, retval, builderVars, nfail,
                             prevGen, curGen, okRun>>
           \/ /\ com \in {"force", "noforce"}
              /\ force' = Toggle(force, com, {"force"}, {"noforce"})
              /\ UNCHANGED <<disk, c, echo, retval, builderVars, nfail,
                             prevGen, curGen, okRun>>
           \/ /\ com = "A"
              /\ \E fails \in FailSets(d1, cwd, ts) :
                    LET nb == NewBuilder(d1, ts, fails)
                    IN  Ran(nb, buildTargetNamed(nb.env, nb.b, com))
              /\ prevGen' = curGen
              /\ curGen' = [Gen("target") EXCEPT !.kind = com]
              /\ UNCHANGED <<c, force, echo>>
    /\ ncmd' = ncmd + 1
    /\ UNCHANGED <<cwd, p, argv, nedit, sk, res>>

CliNext == MainStep

SpecCli == CliInit /\ [][CliNext]_vars

(***************************************************************************)
(* C22.  The commands are applied left to right.  After any number of      *)
(* tokens the toolchain, echo and force settings are those of the last     *)
(* toggle of each group among the tokens processed (the defaults when      *)
(* there is none); a build, buildcache or named-target command generates   *)
(* the command lists with the toolchain, and runs its builder with the     *)
(* echo and force settings, that the tokens to its left establish; and a   *)
(* toggle changes nothing that an earlier command produced.                *)
(***************************************************************************)
\* the tokens processed so far
Done == SubSeq(argv, 1, ncmd)

\* the last token of a group among toks, `none` when there is none
LastOf(toks, group, none) ==
    IF \E i \in 1..Len(toks) : toks[i] \in group
    THEN toks[CHOOSE i \in 1..Len(toks) :
                 /\ toks[i] \in group
                 /\ \A j \in (i + 1)..Len(toks) : toks[j] \notin group]
    ELSE none

\* the settings a token list establishes
ForceOf(toks) == LastOf(toks, {"force", "noforce"}, "noforce") = "force"

EchoOf(toks) == LastOf(toks, {"echo", "noecho"}, "noecho") = "echo"

CompilerOf(toks) ==
    LET com == LastOf(toks, {"gnu", "msvc", "clang"}, "gnu")
    IN  CASE com = "gnu" -> defaultGNUCompiler
          [] com = "msvc" -> defaultMSVCCompiler
          [] OTHER -> defaultClangCompiler

C22_LeftToRight ==
    [][/\ ncmd' = ncmd + 1
       /\ force' = ForceOf(Done') /\ echo' = EchoOf(Done') /\ c' = CompilerOf(Done')
       /\ argv[ncmd + 1] \in {"build", "buildcache", "A"} =>
             LET ts == bscfInclude(disk, cwd, p, CompilerOf(Done))
             IN  /\ \A k \in 1..Len(ts) :
                       ReadLines(disk', cwd, CacheFile(ts[k], ".target"))
                          = bscfGenCmd(cwd, ts[k], CompilerOf(Done), ts)
                 /\ argv[ncmd + 1] # "buildcache" =>
                       /\ bforce' = ForceOf(Done) /\ becho' = EchoOf(Done)
                       /\ ForceOf(Done) =>
                             \A i \in 1..Len(log') : log'[i].e # "skip"
                 /\ <<force', echo', c'>> = <<force, echo, c>>
       /\ argv[ncmd + 1] \in {"gnu", "msvc", "clang", "echo", "noecho", "force",
                              "noforce"} =>
             UNCHANGED <<disk, retval, builderVars, curGen, prevGen, okRun>>
      ]_vars

\* `bscf . force noforce A`: two opposite toggles, then a named-target
\* build that runs with the later one
C22_Witness ==
    /\ ncmd = 3 /\ Len(argv) = 3
    /\ argv[1] = "force" /\ argv[2] = "noforce" /\ argv[3] = "A"
    /\ ~bforce /\ ~force

(***************************************************************************)
(* The expander on IF lines whose predicate is not recognised: the root    *)
(* file is any sequence of up to MaxPredLines lines of PredVocab.          *)
(***************************************************************************)
PredVocab ==
    { Line("IF", <<"FOO", "x">>, <<>>),
      Line("IF", <<"NOT", "FOO", "x">>, <<>>),
      Line("IF", <<"PLATFORM", "amiga">>, <<>>),
      Line("IF", <<"NOT", "PLATFORM", "amiga">>, <<>>),
      Line("IF", <<"COMPILER", "tcc">>, <<>>),
      Line("IF", <<"NOT", "COMPILER", "tcc">>, <<>>),
      Line("ENDIF", <<>>, <<>>),
      Line("TARGET", <<"EXEC", "X">>, <<<<"src", "a.c">>>>),
      Line("DEFINE", <<"X", "M">>, <<>>) }

PredFiles == UNION {[1..n -> PredVocab] : n \in 0..MaxPredLines}

PredInit ==
    /\ \E cfg \in PredFiles : disk = ParseDisk(cfg)
    /\ cwd = ProjRoot /\ p = <<".">>
    /\ c = defaultGNUCompiler
    /\ force = FALSE /\ echo = FALSE /\ argv = <<>> /\ retval = 0
    /\ targets = <<>> /\ built = <<>> /\ failed = <<>>
    /\ bforce = FALSE /\ becho = FALSE
    /\ log = <<>> /\ ncmd = 0 /\ nedit = 0 /\ nfail = 0
    /\ prevGen = NoGen /\ curGen = NoGen /\ okRun = <<>>
    /\ sk = NoSkip
    /\ res = NoRes

PredNext == ParseApply

SpecPred == PredInit /\ [][PredNext]_vars

\* the predicate keyword and the value of an IF line, after an optional NOT
IfKeyword(line) ==
    IF Word(line, 1) = "NOT" THEN Word(line, 2) ELSE Word(line, 1)

IfValue(line) ==
    IF Word(line, 1) = "NOT" THEN Word(line, 3) ELSE Word(line, 2)

\* the lines the program reports: "Invalid if command", "Invalid platform",
\* "Invalid compiler"
UnknownKeyword(line) ==
    line.cmd = "IF" /\ IfKeyword(line) \notin {"PLATFORM", "COMPILER"}

UnknownValue(line) ==
    /\ line.cmd = "IF"
    /\ \/ IfKeyword(line) = "PLATFORM" /\ IfValue(line) \notin KnownPlatforms
       \/ IfKeyword(line) = "COMPILER"
             /\ IfValue(line) \notin {"gnu", "msvc", "clang"}

\* the first IF line of the file, 0 when it has none
FirstIf(lines) ==
    IF \E i \in 1..Len(lines) : lines[i].cmd = "IF"
    THEN CHOOSE i \in 1..Len(lines) :
            /\ lines[i].cmd = "IF"
            /\ \A j \in 1..(i - 1) : lines[j].cmd # "IF"
    ELSE 0

\* the block of the IF at line i took no effect and parsing went on after
\* its ENDIF: the graph is that of the file without the lines i..ENDIF
BlockSkipped(lines, i) ==
    LET e == MatchingEndif(lines, i + 1, 1)
    IN  e <= Len(lines) /\ targets = GraphOf(Without(lines, i, e))

(***************************************************************************)
(* C31.  An IF line whose predicate keyword or whose platform/compiler     *)
(* value is not recognised never lets its block take effect: the block is  *)
(* skipped up to its ENDIF, with or without NOT, and parsing continues     *)
(* after it.  (Stated for the first IF of the file, which no earlier block *)
(* can hide, when its ENDIF is in the file.)                               *)
(***************************************************************************)
C31_UnrecognisedIfSkipsBlock ==
    ncmd = 1 =>
        LET i == FirstIf(RootLines)
        IN  (/\ i # 0
             /\ UnknownKeyword(RootLines[i]) \/ UnknownValue(RootLines[i])
             /\ MatchingEndif(RootLines, i + 1, 1) <= Len(RootLines))
            => BlockSkipped(RootLines, i)

\* the part that holds: an unrecognised platform or compiler value skips
\* the block, with or without NOT
UnknownValueSkipsBlock ==
    ncmd = 1 =>
        LET i == FirstIf(RootLines)
        IN  (/\ i # 0
             /\ UnknownValue(RootLines[i])
             /\ MatchingEndif(RootLines, i + 1, 1) <= Len(RootLines))
            => BlockSkipped(RootLines, i)

(***************************************************************************)
(* The generate pass, call by call.  bscfGenCache takes the targets in     *)
(* graph order; for each, bscfGenCmd calls bscfResolveIncludes, which      *)
(* calls itself for every target named by a dependency.  res.g is the      *)
(* target bscfGenCache works on, res.graph its graph, res.stack the activation records of       *)
(* bscfResolveIncludes (t: the target, di and k: the positions of its two  *)
(* loops, acc: the list built so far) and res.out what the last call of    *)
(* bscfGenCmd got.  The projects declare A, B and C, each with an include  *)
(* directory, and any subset of ResEdges as DEPEND lines.  A behaviour     *)
(* starts when main has taken the command `build` and bscfGenCache has     *)
(* expanded the configuration; the model follows the recursion to depth    *)
(* MaxStack.                                                               *)
(***************************************************************************)
ResEdges ==
    << <<"A", "B">>, <<"A", "C">>, <<"B", "C">>, <<"C", "A">>, <<"B", "B">>,
       <<"C", "B">> >>

RECURSIVE DependLines(_, _)
DependLines(E, k) ==
    IF k > Len(ResEdges) THEN <<>>
    ELSE (IF k \in E
          THEN <<Line("DEPEND", <<ResEdges[k][1], ResEdges[k][2]>>, <<>>)>>
          ELSE <<>>) \o DependLines(E, k + 1)

ResConfig(E) ==
    << Line("TARGET", <<"EXEC", "A">>, <<<<"src", "a.c">>>>),
       Line("TARGET", <<"SLIB", "B">>, <<<<"src", "b.c">>>>),
       Line("TARGET", <<"INTR", "C">>, <<>>),
       Line("INCDIR", <<"A">>, <<<<"ia">>>>),
       Line("INCDIR", <<"B">>, <<<<"ib">>>>),
       Line("INCDIR", <<"C">>, <<<<"ic">>>> ) >> \o DependLines(E, 1)

ResDisk(E) ==
    (ProjRoot \o <<"proj.bscf">> :> File(ResConfig(E), 1))
    @@ (ProjRoot \o <<"src", "a.c">> :> File(<<>>, 1))
    @@ (ProjRoot \o <<"src", "b.c">> :> File(<<>>, 1))

ResInit ==
    /\ \E E \in SUBSET (1..Len(ResEdges)) : disk = ResDisk(E)
    /\ cwd = ProjRoot /\ p = <<".">>
    /\ c = defaultGNUCompiler
    /\ force = FALSE /\ echo = FALSE /\ argv = <<>> /\ retval = 0
    /\ targets = <<>> /\ built = <<>> /\ failed = <<>>
    /\ bforce = FALSE /\ becho = FALSE
    /\ log = <<>> /\ ncmd = 0 /\ nedit = 0 /\ nfail = 0
    /\ prevGen = NoGen /\ curGen = NoGen /\ okRun = <<>>
    /\ sk = NoSkip
    /\ res = [NoRes EXCEPT !.g = 1, !.graph = bscfInclude(disk, cwd, p, c)]

\* the local `targets` of bscfGenCache
ResGraph == res.graph

\* a new activation record of bscfResolveIncludes(targets[t], targets)
Frame(t) == [t |-> t, di |-> 1, k |-> 1, acc |-> <<>>]

Top == res.stack[Len(res.stack)]

\* a resolver that does not follow a target's dependency on its own name
DepMatches_NotSelf(t, dep, cand) ==
    cand.name = dep /\ cand.name # t.name

\* the condition of the inner loop: if (target.name == dep)
DepMatches(t, dep, cand) ==
    cand.name = dep

resVars ==
    <<disk, mainVars, force, retval, builderVars, ncmd, nedit, nfail, prevGen,
      curGen, okRun, sk>>

\* bscfGenCmd(t, c, targets) calls bscfResolveIncludes(t, targets)
GenCmdCall ==
    /\ ncmd = 0 /\ res.g \in 1..Len(ResGraph) /\ res.stack = <<>>
    /\ res' = [res EXCEPT !.stack = <<Frame(res.g)>>]
    /\ UNCHANGED resVars

\* inner loop, the target at k has another name: next target
ResScan ==
    /\ res.stack # <<>>
    /\ LET t == ResGraph[Top.t]
       IN  /\ Top.di <= Len(t.dependencies) /\ Top.k <= Len(ResGraph)
           /\ ~DepMatches(t, t.dependencies[Top.di], ResGraph[Top.k])
    /\ res' = [res EXCEPT !.stack[Len(res.stack)].k = @ + 1]
    /\ UNCHANGED resVars

\* inner loop, the target at k has the name: the recursive call
ResCall ==
    /\ res.stack # <<>> /\ Len(res.stack) < MaxStack
    /\ LET t == ResGraph[Top.t]
       IN  /\ Top.di <= Len(t.dependencies) /\ Top.k <= Len(ResGraph)
           /\ DepMatches(t, t.dependencies[Top.di], ResGraph[Top.k])
    /\ res' = [res EXCEPT !.stack = Append(@, Frame(Top.k))]
    /\ UNCHANGED resVars

\* inner loop at its end: next dependency
ResNextDep ==
    /\ res.stack # <<>>
    /\ Top.di <= Len(ResGraph[Top.t].dependencies) /\ Top.k > Len(ResGraph)
    /\ res' = [res EXCEPT !.stack[Len(res.stack)].di = @ + 1,
                          !.stack[Len(res.stack)].k = 1]
    /\ UNCHANGED resVars

\* outer loop at its end: the own include directories are appended and the
\* call returns, to the caller's inner loop or to bscfGenCmd; bscfGenCache
\* then goes on to the next target
ResReturn ==
    /\ res.stack # <<>>
    /\ Top.di > Len(ResGraph[Top.t].dependencies)
    /\ LET n      == Len(res.stack)
           result == Top.acc \o ResGraph[Top.t].includes
       IN  res' = IF n = 1
                  THEN [res EXCEPT !.g = @ + 1, !.stack = <<>>, !.out = result]
                  ELSE [res EXCEPT
                          !.stack = [SubSeq(@, 1, n - 1) EXCEPT
                                        ![n - 1].acc = @ \o result,
                                        ![n - 1].k = @ + 1]]
    /\ UNCHANGED resVars

\* bscfGenCache has returned: the builder is created and build() runs
ResBuild ==
    /\ ncmd = 0 /\ res.g > Len(ResGraph)
    /\ CmdBuild

\* the steps of the generate pass
GenCacheStep ==
    \/ GenCmdCall
    \/ ResScan
    \/ ResCall
    \/ ResNextDep
    \/ ResReturn

ResNext ==
    \/ GenCacheStep
    \/ ResBuild

\* the pass, once started, runs on as long as it can take a step
SpecRes == ResInit /\ [][ResNext]_vars /\ WF_vars(GenCacheStep)

\* the targets a dependency name of target i denotes for the resolver
IncEdges(G, i) ==
    {j \in 1..Len(G) :
        \E d \in 1..Len(G[i].dependencies) : G[j].name = G[i].dependencies[d]}

RECURSIVE IncClosure(_, _, _)
IncClosure(G, S, n) ==
    IF n = 0 THEN S
    ELSE IncClosure(G, S \cup UNION {IncEdges(G, j) : j \in S}, n - 1)

\* the targets reachable from target i over one or more dependency names
IncReach(G, i) == IncClosure(G, IncEdges(G, i), Len(G))

\* the dependency names reachable from target i form a cycle
CycleFrom(G, i) ==
    \E j \in {i} \cup IncReach(G, i) : j \in IncReach(G, j)

(***************************************************************************)
(* C32.  Include resolution for a target terminates if the dependency      *)
(* names reachable from it form no cycle, with the list the resolver       *)
(* defines, and never returns if they form a cycle: the recursion gets     *)
(* deeper than any chain of distinct targets.  With a cycle reachable from *)
(* some target the generate pass never ends, so no command of any target   *)
(* is executed.                                                            *)
(***************************************************************************)
ResTargets == 1..3

C32_ResolutionTerminatesIffAcyclic ==
    /\ \A k \in ResTargets :
          (res.g = k /\ ~CycleFrom(ResGraph, k)) ~> (res.g = k + 1)
    /\ \A k \in ResTargets :
          (res.g = k /\ CycleFrom(ResGraph, k))
             ~> (Len(res.stack) > Len(ResGraph))
    /\ [][\A k \in ResTargets :
            (res.g = k /\ CycleFrom(ResGraph, k)) => res.g' = k]_vars
    /\ []((res.g > 1 /\ res.stack = <<>>
              /\ ~CycleFrom(ResGraph, res.g - 1)) =>
             res.out = bscfResolveIncludes(ResGraph[res.g - 1], ResGraph))
    /\ []((\E k \in ResTargets : CycleFrom(ResGraph, k)) => log = <<>>)

\* A resolved, B reaches itself through C: the recursion is deeper
\* than the graph has targets and nothing was built
C32_Witness ==
    /\ res.g = 2 /\ CycleFrom(ResGraph, 2)
    /\ ~CycleFrom(ResGraph, 1) /\ IncReach(ResGraph, 2) = {2, 3}
    /\ Len(res.stack) = MaxStack
    /\ log = <<>>

\* without a cycle the pass ends and the commands run
C32_WitnessAcyclic ==
    /\ \A k \in ResTargets : ~CycleFrom(ResGraph, k)
    /\ IncReach(ResGraph, 1) = {2, 3}
    /\ res.g = 4
    /\ \E i \in 1..Len(log) : log[i].e = "cmd"

(***************************************************************************)
(* The command line `softclean build` (in any order and number, up to      *)
(* MaxCommands) on the tree that an earlier `bscf p build` left.  The      *)
(* earlier process ran on a fresh project and at most MaxFailures of its   *)
(* commands exited non-zero; its builder is gone, its files are there.     *)
(***************************************************************************)
\* what `bscf pp build` does to the fresh tree d0 when the commands of
\* `fails` exit non-zero
PriorBuild(d0, w, pp, fails) ==
    LET ts == bscfInclude(d0, w, pp, defaultGNUCompiler)
    IN  build([targets |-> ts, force |-> FALSE, cwd |-> w, fails |-> fails],
              [disk |-> bscfGenCache(d0, w, pp, defaultGNUCompiler),
               built |-> <<>>, failed |-> <<>>, log |-> <<>>,
               okRun |-> <<>>])

SoftInit ==
    /\ \E f \in DirForms : cwd = f.cwd /\ p = f.p
    /\ c = defaultGNUCompiler
    /\ force = FALSE /\ echo = FALSE /\ argv = <<>> /\ retval = 0
    /\ targets = <<>> /\ built = <<>> /\ failed = <<>>
    /\ bforce = FALSE /\ becho = FALSE
    /\ log = <<>> /\ ncmd = 0 /\ nedit = 0
    /\ prevGen = NoGen
    /\ sk = NoSkip /\ res = NoRes
    /\ \E d0 \in Projects :
         LET ts == bscfInclude(d0, cwd, p, c)
             d1 == bscfGenCache(d0, cwd, p, c)
         IN  \E fails \in {F \in SUBSET AllCommands(d1, cwd, ts) :
                              Cardinality(F) <= MaxFailures} :
                LET r == PriorBuild(d0, cwd, p, fails)
                IN  /\ disk = r.b.disk
                    /\ okRun = r.b.okRun
                    /\ nfail = Cardinality(FailedCmds(r.b.log))
                    /\ curGen = [kind |-> "build", force |-> FALSE,
                                 inputs |-> Inputs(d0), cleaned |-> FALSE]

SoftNext ==
    \/ CmdSoftClean
    \/ CmdBuild

SpecSoft == SoftInit /\ [][SoftNext]_vars

\* this step is a `softclean` command
SoftCleanStep == ncmd' = ncmd + 1 /\ log' = log /\ curGen'.cleaned

\* this step is the `build` command that follows a `softclean`
BuildAfterSoftClean == BuildStep /\ curGen.cleaned

\* file f lies in the build/obj or build/cache directory of a target of ts
InObjOrCache(ts, f) ==
    \E k \in 1..Len(ts), sub \in {"obj", "cache"} :
        IsPrefix(Resolve(cwd, ts[k].path \o <<"build", sub>>), f)

(***************************************************************************)
(* C33.  softclean removes each target's object and cache directories and  *)
(* leaves every other file, the final artifacts among them, as it was.  In *)
(* the build that follows no target is skipped by the fingerprint          *)
(* decision: every target that is not vendored has its command list        *)
(* replayed (all of it, when no command fails), and a vendored target      *)
(* whose artifact survived is treated as built, with none of its commands  *)
(* executed.                                                               *)
(***************************************************************************)
C33_SoftCleanThenBuild ==
    [][/\ SoftCleanStep =>
            LET ts == bscfInclude(disk, cwd, p, c)
            IN  /\ DOMAIN disk' = {f \in DOMAIN disk : ~InObjOrCache(ts, f)}
                /\ \A f \in DOMAIN disk' : disk'[f] = disk[f]
                /\ \A k \in 1..Len(ts) :
                      OutputExists(disk, cwd, ts[k]) =>
                         OutputExists(disk', cwd, ts[k])
       /\ BuildAfterSoftClean =>
            \A k \in 1..Len(targets') :
               LET E == EventsOf(log', k)
               IN  /\ \A i \in E : log'[i].e # "skip"
                   /\ (targets'[k].builtin
                         /\ OutputExists(disk, cwd, targets'[k])) =>
                         \A i \in E : /\ log'[i].e = "ret" /\ log'[i].ok
                                      /\ log'[i].why = "vendored"
                   /\ (~targets'[k].builtin /\ FailedCmds(log') = {}) =>
                         /\ \E i \in E : log'[i].e = "start"
                         /\ Cardinality({i \in E : log'[i].e = "cmd"})
                               = Len(ReadLines(disk', cwd,
                                        CacheFile(targets'[k], ".target")))
      ]_vars

\* softclean, then build, after a build that produced every artifact: V
\* (vendored) is short-circuited on its surviving archive, A is replayed
C33_Witness ==
    /\ ncmd = 2 /\ prevGen.cleaned /\ curGen.kind = "build"
    /\ FailedCmds(log) = {}
    /\ \E k \in Targets :
          /\ targets[k].builtin /\ ShortCircuited(k) /\ CmdsOf(k) = {}
    /\ \E k \in Targets :
          /\ ~targets[k].builtin /\ targets[k].type = "EXEC"
          /\ Starts(k) # {} /\ CmdsOf(k) # {}
          /\ OutputExists(disk, cwd, targets[k])

(***************************************************************************)
(* C34.  Whenever a target is skipped by the fingerprint decision, the     *)
(* command list in its .target file is the list that was executed the last *)
(* time the target was built.  Stated for a build or named-target command  *)
(* that comes after one of the same command line with only toggles in      *)
(* between: the earlier builder replayed the .target file that is on disk  *)
(* before the step, so a target it built and the later one skips has the   *)
(* same .target file before and after the step.                            *)
(***************************************************************************)
\* the last builder replayed the whole command list of target k
BuiltBefore(k) ==
    /\ k \in Targets
    /\ \E i \in LogIdx :
          log[i].e = "ret" /\ log[i].t = k /\ log[i].ok /\ log[i].why = "done"

C34_SkippedListWasExecuted ==
    [][(/\ ncmd' = ncmd + 1
        /\ argv[ncmd + 1] \in {"build", "A"}
        /\ curGen.kind \in {"build", "A"} /\ ~curGen.cleaned)
       => \A k \in 1..Len(targets') :
             (BuiltBefore(k) /\ \E i \in 1..Len(log') :
                                   log'[i].e = "skip" /\ log'[i].t = k)
             => ReadLines(disk', cwd, CacheFile(targets'[k], ".target"))
                   = ReadLines(disk, cwd, CacheFile(targets[k], ".target"))
      ]_vars

(***************************************************************************)
(* C35.  For every declared source of every target, the file whose content *)
(* is fingerprinted on the manifest line (the target path joined with the  *)
(* stored source string) is the file that the compile command generated    *)
(* for that source names (the stored source string), for every form of the *)
(* project directory and for the targets of included sub-projects.         *)
(***************************************************************************)
\* the path bscfGenCache hands to getFileHash for source s of target t
HashedPath(t, s) == PathJoin(t.path, s)

C35_HashedFileIsCompiledFile ==
    \A k \in Targets :
        \A i \in 1..Len(targets[k].sources) :
            LET s == targets[k].sources[i]
            IN  IsCompiled(s) =>
                   Resolve(cwd, HashedPath(targets[k], s))
                      = Resolve(cwd, bscfSourceCmd(cwd, targets[k], c, s).ins[1])

(***************************************************************************)
(* Object-file names.  The project declares one target over any list of up *)
(* to MaxSources sources of ObjSources, files in src/ and in src/a/.       *)
(***************************************************************************)
ObjSources ==
    {<<"src", "a.c">>, <<"src", "a.cpp">>, <<"src", "a_b.c">>,
     <<"src", "a", "b.c">>}

ObjLists == UNION {[1..n -> ObjSources] : n \in 0..MaxSources}

ObjDisk(ps) ==
    (ProjRoot \o <<"proj.bscf">> :> File(SrcConfig(ps), 1))
    @@ [f \in {ProjRoot \o s : s \in ObjSources} |-> File(<<>>, 1)]

ObjInit ==
    /\ \E ps \in ObjLists : disk = ObjDisk(ps)
    /\ \E f \in DirForms : cwd = f.cwd /\ p = f.p
    /\ c = defaultGNUCompiler
    /\ force = FALSE /\ echo = FALSE /\ argv = <<>> /\ retval = 0
    /\ targets = <<>> /\ built = <<>> /\ failed = <<>>
    /\ bforce = FALSE /\ becho = FALSE
    /\ log = <<>> /\ ncmd = 0 /\ nedit = 0 /\ nfail = 0
    /\ prevGen = NoGen /\ curGen = NoGen /\ okRun = <<>>
    /\ sk = NoSkip
    /\ res = NoRes

ObjNext == CmdBuild

SpecObj == ObjInit /\ [][ObjNext]_vars

(***************************************************************************)
(* C36.  Within one target, two distinct compiled source paths get two     *)
(* distinct object-file names: no compile command writes the object file   *)
(* of another source of the target, and when the sources are distinct the  *)
(* link or archive command names each object once.                         *)
(***************************************************************************)
\* the compile commands of a command list
Compiles(L) == {i \in 1..Len(L) : L[i].kind = "compile"}

C36_DistinctSourcesDistinctObjects ==
    \A k \in Targets :
        LET L == ReadLines(disk, cwd, CacheFile(targets[k], ".target"))
        IN  /\ \A i \in Compiles(L), j \in Compiles(L) :
                  Resolve(cwd, L[i].ins[1]) # Resolve(cwd, L[j].ins[1]) =>
                     Resolve(cwd, L[i].out) # Resolve(cwd, L[j].out)
            /\ \A n \in 1..Len(L) :
                  (/\ L[n].kind \in {"link", "ar"}
                   /\ \A i \in Compiles(L), j \in Compiles(L) :
                         i # j => L[i].ins # L[j].ins)
                  => \A i \in 1..Len(L[n].ins), j \in 1..Len(L[n].ins) :
                        i # j => L[n].ins[i] # L[n].ins[j]

(***************************************************************************)
(* C37.  A dependency name that matches no target of the graph is ignored  *)
(* by the executor: the depending target is neither failed nor blocked,    *)
(* and its skip decision and command list are those it would have if the   *)
(* dependency had not been declared.  Stated for every `build` step: the   *)
(* run equals the run of a builder on the graph without the unmatched      *)
(* names, on the same files and with the same commands exiting non-zero.   *)
(***************************************************************************)
\* the dependency names of target t that match no target of ts
Unmatched(ts, t) ==
    {i \in 1..Len(t.dependencies) : FindTarget(ts, t.dependencies[i]) = 0}

RECURSIVE Matched(_, _, _)
Matched(ts, deps, i) ==
    IF i > Len(deps) THEN <<>>
    ELSE (IF FindTarget(ts, deps[i]) = 0 THEN <<>> ELSE <<deps[i]>>)
         \o Matched(ts, deps, i + 1)

\* the graph as it would be had the unmatched names not been declared
WithoutUnmatched(ts) ==
    [k \in 1..Len(ts) |->
        [ts[k] EXCEPT !.dependencies = Matched(ts, @, 1)]]

C37_UnmatchedDependencyIgnored ==
    [][BuildStep =>
         LET ts  == targets'
             ts0 == WithoutUnmatched(ts)
             F   == {<<log'[i].t, log'[i].k>> : i \in FailedCmds(log')}
             r0  == build([targets |-> ts0, force |-> force, cwd |-> cwd,
                           fails |-> F],
                          [disk |-> bscfGenCache(disk, cwd, p, c),
                           built |-> <<>>, failed |-> <<>>, log |-> <<>>,
                           okRun |-> okRun])
         IN  /\ \A k \in 1..Len(ts) :
                   bscfGenCmd(cwd, ts[k], c, ts) = bscfGenCmd(cwd, ts0[k], c, ts0)
             /\ log' = r0.b.log /\ built' = r0.b.built
             /\ failed' = r0.b.failed /\ disk' = r0.b.disk
             /\ \A k \in 1..Len(ts) :
                   (Unmatched(ts, ts[k]) # {} /\ FailedCmds(log') = {}) =>
                      /\ ~InSeq(failed', ts[k].name)
                      /\ \E i \in 1..Len(log') :
                            log'[i].t = k /\ log'[i].e \in {"skip", "start"}
      ]_vars

\* A, which depends on the unmatched name `nothere` before its dependency
\* V, was replayed to the end after its dependencies
C37_Witness ==
    /\ ncmd >= 1 /\ curGen.kind = "build" /\ ~curGen.cleaned
    /\ \E k \in Targets :
          /\ Unmatched(targets, targets[k]) # {}
          /\ \E i \in 1..Len(targets[k].dependencies) :
                /\ i \notin Unmatched(targets, targets[k])
                /\ \A j \in Unmatched(targets, targets[k]) : j < i
          /\ InSeq(built, targets[k].name)
          /\ ~InSeq(failed, targets[k].name)

=============================================================================
